---- MODULE Spec2Model ----
(***************************************************************************)
(* A model of index.js, the Express analytics API of demand_forecasting.   *)
(*                                                                         *)
(* The program keeps 20 module-level dataset variables.  app.listen's      *)
(* callback starts 21 CSV streams (the leave-request dataset is fed by two *)
(* files); every stream pushes its rows into a local array and assigns the *)
(* module-level variable in its 'end' handler.  Route handlers read the    *)
(* module-level variables.                                                 *)
(*                                                                         *)
(* Strings are sequences of one-character strings, so that toLowerCase,    *)
(* parseFloat and new Date act on the characters.  A record (a CSV row) is *)
(* a function from the field names it has to strings; a field that the row *)
(* lacks reads as Undefined.  Dates are calendar days [y, m, d] in local   *)
(* time, or InvalidDate.  JavaScript numbers are integers or NaN.          *)
(***************************************************************************)
EXTENDS Integers, Sequences, FiniteSets, TLC

VARIABLES
    files,      \* the CSV files on disk: stream -> sequence of raw rows
    status,     \* stream -> "open" | "ended"
    pos,        \* stream -> number of 'data' events delivered so far
    buf,        \* dataset -> the local `data` array its stream(s) push into
    ds,         \* dataset -> the module-level variable (forecastData, ...)
    phase,      \* "loading" | "ready" | "exited"
    exitCode,   \* the process exit code once phase = "exited", else -1
    resp        \* the response to the last handled request, or NoResp

vars == <<files, status, pos, buf, ds, phase, exitCode, resp>>

---------------------------------------------------------------------------
(* Bounds of the model. *)

\* rows in each sample CSV file of the startup specification
MaxRows == 2
\* streams still in flight in the first state of the startup specification
MaxPending == 2
\* records in a dataset drawn for the specifications of the pure handlers
MaxLen == 2
\* forecast records drawn for the specification of the period aggregator
MaxRecords == 3
\* significant bits of a number: the model's scale of a double's 53
MantissaBits == 12
\* sales records drawn for the specification of the truncated breakdowns:
\* one more than the five groups that top-products keeps
MaxProducts == 6

---------------------------------------------------------------------------
(* JavaScript values. *)

\* the value of a property the object does not have
Undefined == <<"#undefined">>

NaN == [nan |-> TRUE, v |-> 0]
Num(n) == [nan |-> FALSE, v |-> n]

RECURSIVE Pow2(_)
Pow2(n) == IF n = 0 THEN 1 ELSE 2 * Pow2(n - 1)

\* n >= 0 rounded to a multiple of unit, the unit doubled until the multiple
\* fits the significand; a tie goes to the even multiple
RECURSIVE RoundAt(_, _)
RoundAt(n, unit) ==
    LET q == n \div unit
        r == n % unit
    IN  IF q >= Pow2(MantissaBits) THEN RoundAt(n, 2 * unit)
        ELSE IF 2 * r < unit \/ (2 * r = unit /\ q % 2 = 0) THEN q * unit
        ELSE (q + 1) * unit

\* the floating-point number nearest to the integer n: what a numeric
\* operation with the exact result n yields
Float(n) == Num(IF n >= 0 THEN RoundAt(n, 1) ELSE 0 - RoundAt(0 - n, 1))

\* a string that is no numeral, such as "function Object() { ... }7": it is
\* truthy, and where a number is needed it counts as NaN
Text == [nan |-> TRUE, v |-> 0, text |-> TRUE]

IsText(x) == "text" \in DOMAIN x

\* a + b: with a string operand the concatenation, which is a string; on
\* numbers NaN is absorbing and the sum is rounded
JsAdd(a, b) ==
    IF IsText(a) \/ IsText(b) THEN Text
    ELSE IF a.nan \/ b.nan THEN NaN ELSE Float(a.v + b.v)

\* row[f], Undefined when the row has no field f
Get(row, f) == IF f \in DOMAIN row THEN row[f] ELSE Undefined

\* the truthiness of a string-or-undefined value
Truthy(x) == x # Undefined /\ x # <<>>

Digits == {"0", "1", "2", "3", "4", "5", "6", "7", "8", "9"}

DigitVal(c) ==
    CASE c = "0" -> 0 [] c = "1" -> 1 [] c = "2" -> 2 [] c = "3" -> 3
      [] c = "4" -> 4 [] c = "5" -> 5 [] c = "6" -> 6 [] c = "7" -> 7
      [] c = "8" -> 8 [] c = "9" -> 9

\* String.prototype.toLowerCase on the letters of the model's alphabet
LowerChar(c) ==
    CASE c = "A" -> "a" [] c = "B" -> "b" [] c = "S" -> "s" [] c = "T" -> "t"
      [] OTHER -> c

ToLowerCase(s) == [i \in 1..Len(s) |-> LowerChar(s[i])]

\* the length of the longest prefix of s made of digits
RECURSIVE DigitPrefix(_, _)
DigitPrefix(s, i) ==
    IF i <= Len(s) /\ s[i] \in Digits THEN DigitPrefix(s, i + 1) ELSE i - 1

RECURSIVE DigitsValue(_, _)
DigitsValue(s, n) ==
    IF n = 0 THEN 0 ELSE 10 * DigitsValue(s, n - 1) + DigitVal(s[n])

\* parseFloat on strings of digits and letters: the number its longest
\* digit prefix denotes, NaN when there is none (and for undefined)
ParseFloat(x) ==
    IF x = Undefined THEN NaN
    ELSE LET n == DigitPrefix(x, 1)
         IN  IF n = 0 THEN NaN ELSE Float(DigitsValue(x, n))

DigitChar(i) ==
    CASE i = 0 -> "0" [] i = 1 -> "1" [] i = 2 -> "2" [] i = 3 -> "3"
      [] i = 4 -> "4" [] i = 5 -> "5" [] i = 6 -> "6" [] i = 7 -> "7"
      [] i = 8 -> "8" [] OTHER -> "9"

TwoDigits(n) == <<DigitChar(n \div 10), DigitChar(n % 10)>>

\* the date-only ISO string of a calendar day
IsoDate(y, m, d) ==
    TwoDigits(y \div 100) \o TwoDigits(y % 100) \o <<"-">> \o TwoDigits(m)
    \o <<"-">> \o TwoDigits(d)

InvalidDate == [y |-> 0, m |-> 0, d |-> 0]

IsLeap(y) == (y % 4 = 0 /\ y % 100 # 0) \/ y % 400 = 0

DaysInMonth(y, m) ==
    IF m = 2 THEN (IF IsLeap(y) THEN 29 ELSE 28)
    ELSE IF m \in {4, 6, 9, 11} THEN 30 ELSE 31

\* new Date(x) for a date-only ISO string "YYYY-MM-DD"; anything else the
\* model's files hold is not a date
NewDate(x) ==
    IF x = Undefined \/ Len(x) # 10 THEN InvalidDate
    ELSE IF /\ \A i \in {1, 2, 3, 4, 6, 7, 9, 10} : x[i] \in Digits
            /\ x[5] = "-" /\ x[8] = "-"
         THEN LET y == DigitsValue(SubSeq(x, 1, 4), 4)
                  m == DigitsValue(SubSeq(x, 6, 7), 2)
                  d == DigitsValue(SubSeq(x, 9, 10), 2)
              IN  IF m \in 1..12 /\ d \in 1..DaysInMonth(y, m)
                  THEN [y |-> y, m |-> m, d |-> d]
                  ELSE InvalidDate
         ELSE InvalidDate

---------------------------------------------------------------------------
(* The datasets and the streams that load them. *)

Datasets ==
    {"forecast", "insights", "sales",
     "stock", "alert", "schedule", "bom", "mrp", "productionOrders",
     "stationSchedule", "procurement",
     "attendance", "leaveRequests", "operatorInsights",
     "suppliers", "alternateSuppliers", "supplierInsights",
     "monthlyInsights", "quarterlyInsights", "yearlyInsights"}

LeaveStreams == {"leaveJan", "leaveFeb"}

Streams == (Datasets \ {"leaveRequests"}) \cup LeaveStreams

\* the dataset whose local array the stream pushes into
DatasetOf(s) == IF s \in LeaveStreams THEN "leaveRequests" ELSE s

StreamsOf(d) == {s \in Streams : DatasetOf(s) = d}

\* a column every row of the stream's file has
KeyField(s) ==
    CASE s \in {"stock", "alert", "schedule", "bom", "mrp", "suppliers"}
             -> "SKU_No"
      [] s \in {"alternateSuppliers", "supplierInsights"} -> "sku_id"
      [] s = "procurement" -> "SKU_ID"
      [] s \in {"attendance"} -> "Operator_ID"
      [] s \in {"operatorInsights", "leaveJan", "leaveFeb"} -> "operator_id"
      [] s = "stationSchedule" -> "station"
      [] s = "productionOrders" -> "po_number"
      [] s = "sales" -> "Order Item Id"
      [] s \in {"monthlyInsights", "quarterlyInsights", "yearlyInsights"}
             -> "Insight"
      [] OTHER -> "PRODUCT_CARD_ID"

\* row i of the sample file of stream s.  The forecast file's row 2 has a
\* demand and a date that do not parse; the two leave files differ in reason.
SampleRow(s, i) ==
    IF s = "forecast"
    THEN [PRODUCT_CARD_ID |-> <<DigitChar(i)>>,
          PRODUCT_NAME |-> <<"A">>,
          Date |-> IF i = 2 THEN <<"B">>
                   ELSE <<"2", "0", "2", "4", "-", "0", "1", "-", "0",
                          DigitChar(i)>>,
          Forecasted_Demand |-> IF i = 2 THEN <<"a">>
                                ELSE <<DigitChar(i), "0">>]
    ELSE IF s \in LeaveStreams
    THEN [operator_id |-> <<DigitChar(i)>>,
          reason |-> IF s = "leaveJan" THEN <<"a">> ELSE <<"b">>]
    ELSE (KeyField(s) :> <<DigitChar(i)>>)

SampleFiles == [s \in Streams |-> [i \in 1..MaxRows |-> SampleRow(s, i)]]

\* what the stream's 'data' handler pushes for a raw row: loadData converts
\* two fields in place, every other loader pushes the row as parsed
ConvertRow(s, row) ==
    IF s = "forecast"
    THEN [f \in DOMAIN row \cup {"Forecasted_Demand", "Date"} |->
            IF f = "Forecasted_Demand" THEN ParseFloat(Get(row, f))
            ELSE IF f = "Date" THEN NewDate(Get(row, f))
            ELSE row[f]]
    ELSE row

ConvertFile(s, rows) == [i \in 1..Len(rows) |-> ConvertRow(s, rows[i])]

\* every interleaving of a and b that keeps the order within a and within b
RECURSIVE Merges(_, _)
Merges(a, b) ==
    IF a = <<>> THEN {b}
    ELSE IF b = <<>> THEN {a}
    ELSE {<<Head(a)>> \o m : m \in Merges(Tail(a), b)}
         \cup {<<Head(b)>> \o m : m \in Merges(a, Tail(b))}

AllEnded(st) == \A s \in Streams : st[s] = "ended"

NoResp ==
    [req |-> [path |-> <<"none">>, query |-> <<>>], route |-> "none",
     status |-> 0, body |-> <<>>, thrown |-> FALSE]

---------------------------------------------------------------------------
(* Startup: the callback of app.listen has started every stream.          *)

RECURSIVE SubsetsUpTo(_)
SubsetsUpTo(k) ==
    IF k = 0 THEN {{}}
    ELSE LET prev == SubsetsUpTo(k - 1)
         IN  prev \cup {p \cup {s} : p \in prev, s \in Streams}

\* The server is listening and all 21 streams have been created.  The
\* streams share no state but the leave-request array, so exploration starts
\* from every state in which at most MaxPending of them are still in flight
\* and untouched and the others have run to their 'end' event (January's
\* rows before February's, when both leave streams are among those).
InitStartup ==
    /\ files = SampleFiles
    /\ \E P \in SubsetsUpTo(MaxPending) :
         /\ status = [s \in Streams |-> IF s \in P THEN "open" ELSE "ended"]
         /\ pos = [s \in Streams |-> IF s \in P THEN 0 ELSE Len(files[s])]
         /\ buf = [d \in Datasets |->
                     IF d = "leaveRequests"
                     THEN (IF "leaveJan" \in P THEN <<>> ELSE files["leaveJan"])
                          \o (IF "leaveFeb" \in P THEN <<>> ELSE files["leaveFeb"])
                     ELSE IF d \in P THEN <<>>
                     ELSE ConvertFile(d, files[d])]
         /\ ds = [d \in Datasets |->
                    IF StreamsOf(d) \cap P # {} THEN <<>> ELSE buf[d]]
         /\ phase = IF P = {} THEN "ready" ELSE "loading"
    /\ exitCode = -1
    /\ resp = NoResp

\* A loader that pushes each row straight into the module-level array.
StreamData_PushesToGlobal(s) ==
    /\ phase # "exited"
    /\ status[s] = "open"
    /\ pos[s] < Len(files[s])
    /\ pos' = [pos EXCEPT ![s] = @ + 1]
    /\ buf' = [buf EXCEPT ![DatasetOf(s)] =
                 Append(@, ConvertRow(s, files[s][pos[s] + 1]))]
    /\ ds' = [ds EXCEPT ![DatasetOf(s)] = buf'[DatasetOf(s)]]
    /\ UNCHANGED <<files, status, phase, exitCode, resp>>

\* .on('data', (row) => { ...; data.push(row); })
StreamData(s) ==
    /\ phase # "exited"
    /\ status[s] = "open"
    /\ pos[s] < Len(files[s])
    /\ pos' = [pos EXCEPT ![s] = @ + 1]
    /\ buf' = [buf EXCEPT ![DatasetOf(s)] =
                 Append(@, ConvertRow(s, files[s][pos[s] + 1]))]
    /\ UNCHANGED <<files, status, ds, phase, exitCode, resp>>

\* A leave loader whose streams each assign the shared array on their own
\* 'end' event.
StreamEnd_AssignsOnEachEnd(s) ==
    /\ phase # "exited"
    /\ status[s] = "open"
    /\ pos[s] = Len(files[s])
    /\ status' = [status EXCEPT ![s] = "ended"]
    /\ ds' = [ds EXCEPT ![DatasetOf(s)] = buf[DatasetOf(s)]]
    /\ phase' = IF AllEnded(status') THEN "ready" ELSE phase
    /\ UNCHANGED <<files, pos, buf, exitCode, resp>>

\* .on('end', () => { xData = data; resolve(); }).  For the two leave
\* streams 'end' resolves the inner promise and the assignment is made by
\* the .then of their Promise.all, that is with the second 'end'.  When the
\* last promise resolves, the awaited Promise.all does and startup is over.
StreamEnd(s) ==
    /\ phase # "exited"
    /\ status[s] = "open"
    /\ pos[s] = Len(files[s])
    /\ status' = [status EXCEPT ![s] = "ended"]
    /\ ds' = IF \A t \in StreamsOf(DatasetOf(s)) : status'[t] = "ended"
             THEN [ds EXCEPT ![DatasetOf(s)] = buf[DatasetOf(s)]]
             ELSE ds
    /\ phase' = IF AllEnded(status') THEN "ready" ELSE phase
    /\ UNCHANGED <<files, pos, buf, exitCode, resp>>

\* .on('error', reject) on the csv parser: the rejection travels through the
\* Promise.all's to the await of the listen callback, whose catch block
\* calls process.exit(1), all before the next event is handled.
StreamError(s) ==
    /\ phase # "exited"
    /\ status[s] = "open"
    /\ phase' = "exited"
    /\ exitCode' = 1
    /\ UNCHANGED <<files, status, pos, buf, ds, resp>>

\* An 'error' of the fs read stream itself (a missing file): pipe() does not
\* forward it and no listener is attached to the read stream, so it is an
\* uncaught exception and the process dies with exit code 1.
ReadStreamError(s) ==
    /\ phase # "exited"
    /\ status[s] = "open"
    /\ pos[s] = 0
    /\ phase' = "exited"
    /\ exitCode' = 1
    /\ UNCHANGED <<files, status, pos, buf, ds, resp>>

---------------------------------------------------------------------------
(* Routing.  A path is its sequence of segments.  Segments are TLA+       *)
(* strings, except the segment that fills :supplier, :identifier, :sku_id *)
(* or :operator_id, which is a character sequence: handlers compare it    *)
(* with field values.  Express tries the routes in registration order and *)
(* the first whose pattern matches handles the request; no handler calls  *)
(* next().                                                                *)

RouteTable ==
    << [name |-> "forecasts",          pattern |-> <<"api", "forecasts">>],
       [name |-> "forecastsWeekly",    pattern |-> <<"api", "forecasts", "weekly">>],
       [name |-> "forecastsMonthly",   pattern |-> <<"api", "forecasts", "monthly">>],
       [name |-> "forecastsQuarterly", pattern |-> <<"api", "forecasts", "quarterly">>],
       [name |-> "bulletInsights",     pattern |-> <<"api", "insights">>],
       [name |-> "products",           pattern |-> <<"api", "products">>],
       [name |-> "salesKpis",          pattern |-> <<"api", "sales", "kpis">>],
       [name |-> "salesMetric",        pattern |-> <<"api", "sales", ":metric">>],
       [name |-> "inventoryKpis",      pattern |-> <<"api", "inventory", "kpis">>],
       [name |-> "reorderChart",       pattern |-> <<"api", "inventory", "reorder_chart">>],
       [name |-> "leadTimes",          pattern |-> <<"api", "inventory", "lead_times">>],
       [name |-> "inventorySuppliers", pattern |-> <<"api", "inventory", "suppliers">>],
       [name |-> "inventoryDataset",   pattern |-> <<"api", "inventory", ":dataset">>],
       [name |-> "procurementInsights", pattern |-> <<"api", "procurement", "insights">>],
       [name |-> "procurementInsight", pattern |-> <<"api", "procurement", "insight", ":sku_id">>],
       [name |-> "kpis",               pattern |-> <<"api", "kpis">>],
       [name |-> "schedule",           pattern |-> <<"api", "schedule">>],
       [name |-> "scheduleChart",      pattern |-> <<"api", "schedule", "chart">>],
       [name |-> "operatorWorkload",   pattern |-> <<"api", "schedule", "operator_workload">>],
       [name |-> "attendance",         pattern |-> <<"api", "attendance">>],
       [name |-> "attendanceTable",    pattern |-> <<"api", "attendance", "table">>],
       [name |-> "leaves",             pattern |-> <<"api", "leaves">>],
       [name |-> "operatorInsights",   pattern |-> <<"api", "insights">>],
       [name |-> "operatorInsight",    pattern |-> <<"api", "insights1", ":operator_id">>],
       [name |-> "operatorsDropdown",  pattern |-> <<"api", "operators", "dropdown">>],
       [name |-> "supplierEndpoint",   pattern |-> <<"api", "suppliers", ":endpoint", ":supplier">>],
       [name |-> "suppliersList",      pattern |-> <<"api", "suppliers", "list">>],
       [name |-> "supplierAlternates", pattern |-> <<"api", "suppliers", "alternates", ":supplier">>],
       [name |-> "supplierInsight",    pattern |-> <<"api", "suppliers", "insight", ":identifier">>],
       [name |-> "insightsPeriod",     pattern |-> <<"api", "insights", ":period">>],
       [name |-> "health",             pattern |-> <<>>] >>

IsParam(p) ==
    p \in {":metric", ":dataset", ":sku_id", ":operator_id", ":endpoint",
           ":supplier", ":identifier", ":period"}

\* the pattern's literal segments equal the path's, compared from the left
\* up to the first difference
RECURSIVE MatchesFrom(_, _, _)
MatchesFrom(pattern, path, k) ==
    IF k > Len(pattern) THEN TRUE
    ELSE IF IsParam(pattern[k]) THEN MatchesFrom(pattern, path, k + 1)
    ELSE IF pattern[k] = path[k] THEN MatchesFrom(pattern, path, k + 1)
    ELSE FALSE

Matches(pattern, path) ==
    Len(pattern) = Len(path) /\ MatchesFrom(pattern, path, 1)

\* the name of the first route that matches, "notFound" (the catch-all
\* middleware registered after the routes) when none does
Dispatch_LastRegistered(path) ==
    LET hits == {i \in 1..Len(RouteTable) : Matches(RouteTable[i].pattern, path)}
    IN  IF hits = {} THEN "notFound"
        ELSE RouteTable[CHOOSE i \in hits : \A j \in hits : i >= j].name

Dispatch(path) ==
    LET hits == {i \in 1..Len(RouteTable) : Matches(RouteTable[i].pattern, path)}
    IN  IF hits = {} THEN "notFound"
        ELSE RouteTable[CHOOSE i \in hits : \A j \in hits : i <= j].name

---------------------------------------------------------------------------
(* Handlers.  A handler maps the datasets d and the request to its        *)
(* response and to the datasets as it leaves them.                        *)

Reply(code, body, store) ==
    [status |-> code, body |-> body, store |-> store, thrown |-> FALSE]

\* An exception that leaves the handler: Express's default error handler
\* answers 500 with its own (non-JSON) page.
Throws(store) ==
    [status |-> 500, body |-> [html |-> "TypeError"], store |-> store,
     thrown |-> TRUE]

\* rows.filter(d => d[f] === v)
FilterEq(rows, f, v) == SelectSeq(rows, LAMBDA r : Get(r, f) = v)

\* A filterData whose second filter starts again from the whole dataset.
filterData_SecondFromAll(q, d) ==
    LET all == d["forecast"]
        byId == IF Truthy(Get(q, "PRODUCT_CARD_ID"))
                THEN FilterEq(all, "PRODUCT_CARD_ID", q["PRODUCT_CARD_ID"])
                ELSE all
    IN  IF Truthy(Get(q, "PRODUCT_NAME"))
        THEN FilterEq(all, "PRODUCT_NAME", q["PRODUCT_NAME"])
        ELSE byId

\* const filterData = (req) => ...
filterData(q, d) ==
    LET all == d["forecast"]
        byId == IF Truthy(Get(q, "PRODUCT_CARD_ID"))
                THEN FilterEq(all, "PRODUCT_CARD_ID", q["PRODUCT_CARD_ID"])
                ELSE all
    IN  IF Truthy(Get(q, "PRODUCT_NAME"))
        THEN FilterEq(byId, "PRODUCT_NAME", q["PRODUCT_NAME"])
        ELSE byId

\* const filterInsightsData = (req) => ...
filterInsightsData(q, d) ==
    LET all == d["insights"]
        byMonth == IF Truthy(Get(q, "Month"))
                   THEN FilterEq(all, "Month", q["Month"])
                   ELSE all
        byId == IF Truthy(Get(q, "PRODUCT_CARD_ID"))
                THEN FilterEq(byMonth, "PRODUCT_CARD_ID", q["PRODUCT_CARD_ID"])
                ELSE byMonth
    IN  IF Truthy(Get(q, "PRODUCT_NAME"))
        THEN FilterEq(byId, "PRODUCT_NAME", q["PRODUCT_NAME"])
        ELSE byId

H_forecasts(q, d) == Reply(200, filterData(q, d), d)

H_bulletInsights(q, d) == Reply(200, filterInsightsData(q, d), d)

---------------------------------------------------------------------------
(* The calendar, and date-fns' getWeek, getMonth and getQuarter with the  *)
(* default options the code calls them with (weeks start on Sunday and    *)
(* week 1 is the week that holds January 1st).                            *)

RECURSIVE DaysBeforeMonth(_, _)
DaysBeforeMonth(y, m) ==
    IF m = 1 THEN 0 ELSE DaysBeforeMonth(y, m - 1) + DaysInMonth(y, m - 1)

\* the day's number in the proleptic Gregorian calendar (1 = 0001-01-01,
\* a Monday)
Ordinal(date) ==
    LET p == date.y - 1
    IN  365 * p + (p \div 4) - (p \div 100) + (p \div 400)
        + DaysBeforeMonth(date.y, date.m) + date.d

\* Date.prototype.getDay: 0 is Sunday
GetDay(date) == Ordinal(date) % 7

\* the ordinal of the Sunday that starts the date's week
StartOfWeek(date) == Ordinal(date) - GetDay(date)

Jan1(y) == [y |-> y, m |-> 1, d |-> 1]

\* date-fns getWeekYear
GetWeekYear(date) ==
    IF Ordinal(date) >= StartOfWeek(Jan1(date.y + 1)) THEN date.y + 1
    ELSE IF Ordinal(date) >= StartOfWeek(Jan1(date.y)) THEN date.y
    ELSE date.y - 1

\* date-fns getWeek: the weeks between the start of the date's week and the
\* start of its week-numbering year, plus one
getWeek(date) ==
    IF date = InvalidDate THEN NaN
    ELSE Num((StartOfWeek(date) - StartOfWeek(Jan1(GetWeekYear(date)))) \div 7 + 1)

\* Date.prototype.getFullYear
GetFullYear(date) == IF date = InvalidDate THEN NaN ELSE Num(date.y)

\* date-fns getMonth, 0-based
getMonth(date) == IF date = InvalidDate THEN NaN ELSE Num(date.m - 1)

\* date-fns getQuarter
getQuarter(date) ==
    IF date = InvalidDate THEN NaN ELSE Num((date.m - 1) \div 3 + 1)

---------------------------------------------------------------------------
(* The period aggregator. *)

\* the template literal `${year}-W${week}`: the pair it spells
PeriodKey(date, groupBy) ==
    IF groupBy = "weekly"
    THEN [year |-> GetFullYear(date), unit |-> "W", n |-> getWeek(date)]
    ELSE IF groupBy = "monthly"
    THEN [year |-> GetFullYear(date), unit |-> "M",
          n |-> JsAdd(getMonth(date), Num(1))]
    ELSE IF groupBy = "quarterly"
    THEN [year |-> GetFullYear(date), unit |-> "Q", n |-> getQuarter(date)]
    ELSE [year |-> NaN, unit |-> "undefined", n |-> NaN]

\* A reduce step that assigns the demand instead of adding it.
Accumulate_Assigns(acc, curr, groupBy) ==
    LET key == PeriodKey(curr.Date, groupBy)
        at == {i \in 1..Len(acc) : acc[i].key = key}
    IN  IF at = {}
        THEN Append(acc, [key |-> key,
                          demand |-> JsAdd(Num(0), curr.Forecasted_Demand),
                          count |-> 1])
        ELSE LET i == CHOOSE i \in at : TRUE
             IN  [acc EXCEPT ![i] = [key |-> key,
                                     demand |-> curr.Forecasted_Demand,
                                     count |-> @.count + 1]]

\* one step of the reduce: acc[key] is created on first use, then
\* demand += curr.Forecasted_Demand and count += 1.  acc keeps its keys in
\* insertion order.
Accumulate(acc, curr, groupBy) ==
    LET key == PeriodKey(curr.Date, groupBy)
        at == {i \in 1..Len(acc) : acc[i].key = key}
    IN  IF at = {}
        THEN Append(acc, [key |-> key,
                          demand |-> JsAdd(Num(0), curr.Forecasted_Demand),
                          count |-> 1])
        ELSE LET i == CHOOSE i \in at : TRUE
             IN  [acc EXCEPT ![i] = [key |-> key,
                                     demand |-> JsAdd(@.demand, curr.Forecasted_Demand),
                                     count |-> @.count + 1]]

RECURSIVE Reduce(_, _, _)
Reduce(data, groupBy, n) ==
    IF n = 0 THEN <<>>
    ELSE Accumulate(Reduce(data, groupBy, n - 1), data[n], groupBy)

\* a / n for a JavaScript number a and a count n >= 1, kept as a fraction
JsDiv(a, n) ==
    IF a.nan THEN [nan |-> TRUE, num |-> 0, den |-> 1]
    ELSE [nan |-> FALSE, num |-> a.v, den |-> n]

\* const aggregateData = (data, groupBy) => ...
aggregateData(data, groupBy) ==
    LET aggregated == Reduce(data, groupBy, Len(data))
    IN  [i \in 1..Len(aggregated) |->
           [period |-> aggregated[i].key,
            total_demand |-> aggregated[i].demand,
            average_demand |-> JsDiv(aggregated[i].demand, aggregated[i].count)]]

H_forecastsAggregated(groupBy, q, d) ==
    Reply(200, aggregateData(filterData(q, d), groupBy), d)

---------------------------------------------------------------------------
(* Dataset dumps, attendance and leave requests. *)

\* the object literal fileMap of GET /api/inventory/:dataset
InventoryFileMap ==
    [stock_levels |-> "stock", alerts |-> "alert", bom |-> "bom",
     mrp_plan |-> "mrp", production_orders |-> "productionOrders",
     schedule |-> "schedule", station_schedule |-> "stationSchedule"]

\* the object literal fileMap of GET /api/insights/:period
PeriodFileMap ==
    [monthly |-> "monthlyInsights", quarterly |-> "quarterlyInsights",
     yearly |-> "yearlyInsights"]

\* property names every object literal inherits from Object.prototype; what
\* they name is truthy
InheritedKeys ==
    {"constructor", "toString", "valueOf", "hasOwnProperty", "__proto__"}

\* if (!fileMap[name]) return res.status(400)...; res.json(fileMap[name]).
\* An array, even an empty one, is truthy.
DumpByName(fileMap, name, what, d) ==
    IF name \in DOMAIN fileMap THEN Reply(200, d[fileMap[name]], d)
    ELSE IF name \in InheritedKeys THEN Reply(200, [inherited |-> name], d)
    ELSE Reply(400, [error |-> <<"Invalid ", what, " '", name, "'">>], d)

H_inventoryDataset(dataset, d) ==
    DumpByName(InventoryFileMap, dataset, "dataset", d)

H_insightsPeriod(period, d) == DumpByName(PeriodFileMap, period, "period", d)

H_procurementInsights(d) == Reply(200, d["procurement"], d)

\* the comparator (a, b) => new Date(a[f]) - new Date(b[f]); a NaN result
\* counts as 0
CompareDates(a, b, f) ==
    LET x == NewDate(Get(a, f))
        y == NewDate(Get(b, f))
    IN  IF x = InvalidDate \/ y = InvalidDate THEN 0
        ELSE Ordinal(x) - Ordinal(y)

\* x put into the sorted sequence s after the elements that do not compare
\* greater than it
RECURSIVE InsertByDate(_, _, _)
InsertByDate(s, x, f) ==
    IF s = <<>> THEN <<x>>
    ELSE IF CompareDates(s[Len(s)], x, f) <= 0 THEN Append(s, x)
    ELSE Append(InsertByDate(SubSeq(s, 1, Len(s) - 1), x, f), s[Len(s)])

\* Array.prototype.sort with the date comparator: a stable sort
RECURSIVE SortByDate(_, _, _)
SortByDate(a, f, n) ==
    IF n = 0 THEN <<>> ELSE InsertByDate(SortByDate(a, f, n - 1), a[n], f)

\* item => ({date: item.Date, ..., shift: item.Shift || 'Day'})
FormatAttendance(item) ==
    [date |-> Get(item, "Date"),
     operator_id |-> Get(item, "Operator_ID"),
     operator_name |-> Get(item, "Operator_Name"),
     present |-> Get(item, "Present"),
     shift |-> IF Truthy(Get(item, "Shift")) THEN item["Shift"]
               ELSE <<"D", "a", "y">>]

\* An attendance handler that sorts attendanceData itself and then maps it.
AttendanceSorted_InPlace(d) ==
    LET attendanceData ==
            SortByDate(d["attendance"], "Date", Len(d["attendance"]))
    IN  [body |-> [i \in 1..Len(attendanceData) |->
                     FormatAttendance(attendanceData[i])],
         store |-> [d EXCEPT !["attendance"] = attendanceData]]

\* attendanceData.map(...).sort(...): map returns a new array, and sort
\* sorts in place the array it is called on, which is that new array
AttendanceSorted(d) ==
    LET attendanceData == d["attendance"]
        formattedData ==
            [i \in 1..Len(attendanceData) |-> FormatAttendance(attendanceData[i])]
    IN  [body |-> SortByDate(formattedData, "date", Len(formattedData)),
         store |-> [d EXCEPT !["attendance"] = attendanceData]]

H_attendance(d) ==
    LET r == AttendanceSorted(d) IN Reply(200, r.body, r.store)

H_attendanceTable(d) ==
    LET r == AttendanceSorted(d) IN Reply(200, r.body, r.store)

H_leaves(d) ==
    Reply(200,
          [i \in 1..Len(d["leaveRequests"]) |->
             [f \in {"from_date", "to_date", "operator_id", "operator_name",
                     "reason", "status"} |-> Get(d["leaveRequests"][i], f)]],
          d)

\* the second handler registered for GET /api/insights
H_operatorInsights(d) ==
    Reply(200,
          [insights |-> SelectSeq(d["operatorInsights"],
                          LAMBDA r : Truthy(Get(r, "operator_id"))
                                     /\ Truthy(Get(r, "ai_insight")))],
          d)

H_health(d) == Reply(200, [message |-> "up and running"], d)

\* the catch-all middleware: res.status(404).send(...)
H_notFound(d) == Reply(404, [text |-> "Sorry, can't find that!"], d)

---------------------------------------------------------------------------
(* Supplier performance handlers. *)

\* s.replace(c, ''): s without the first occurrence of the character c
RemoveFirst(s, c) ==
    LET at == {i \in 1..Len(s) : s[i] = c}
    IN  IF at = {} THEN s
        ELSE LET i == CHOOSE i \in at : \A j \in at : i <= j
             IN  SubSeq(s, 1, i - 1) \o SubSeq(s, i + 1, Len(s))

\* parseInt on strings of digits and letters
ParseInt(x) ==
    IF x = Undefined THEN NaN
    ELSE LET n == DigitPrefix(x, 1)
         IN  IF n = 0 THEN NaN ELSE Float(DigitsValue(x, n))

\* a - b on JavaScript numbers
JsSub(a, b) == IF a.nan \/ b.nan THEN NaN ELSE Float(a.v - b.v)

\* item.Supplier_Name.toLowerCase() === name.toLowerCase(), for an item
\* that has a Supplier_Name
NameMatches(item, name) ==
    ToLowerCase(item["Supplier_Name"]) = ToLowerCase(name)

\* GET /api/suppliers/:endpoint/:supplier
H_supplierEndpoint(endpoint, supplier, d) ==
    LET rows == d["suppliers"]
    IN  IF \E i \in 1..Len(rows) : "Supplier_Name" \notin DOMAIN rows[i]
        THEN Throws(d)    \* undefined.toLowerCase() inside filter
        ELSE
        LET match == SelectSeq(rows, LAMBDA r : NameMatches(r, supplier))
        IN  IF Len(match) = 0
            THEN Reply(404, [error |-> supplier \o <<" not found">>], d)
            ELSE
            LET sd == match[1]
                percents == {"Fulfillment_Rate", "OTD_Percentage"}
            IN  IF endpoint = "kpis"
                THEN IF ~(percents \subseteq DOMAIN sd) THEN Throws(d)
                     ELSE Reply(200,
                       [supplier |-> sd["Supplier_Name"],
                        lead_time_days |-> ParseFloat(Get(sd, "Lead_Time_Days")),
                        fulfillment_rate_percent |->
                            ParseFloat(RemoveFirst(sd["Fulfillment_Rate"], "%")),
                        otd_percent |->
                            ParseFloat(RemoveFirst(sd["OTD_Percentage"], "%")),
                        late_deliveries |-> ParseInt(Get(sd, "Late_Deliveries")),
                        total_orders |-> ParseInt(Get(sd, "Total_Orders"))], d)
                ELSE IF endpoint = "metrics"
                THEN IF ~(percents \subseteq DOMAIN sd) THEN Throws(d)
                     ELSE Reply(200,
                       [otd |-> ParseFloat(RemoveFirst(sd["OTD_Percentage"], "%")),
                        quality |-> ParseFloat(Get(sd, "Quality_Score")),
                        fulfillment |->
                            ParseFloat(RemoveFirst(sd["Fulfillment_Rate"], "%"))], d)
                ELSE IF endpoint = "delivery-stats"
                THEN LET totalOrders == ParseInt(Get(sd, "Total_Orders"))
                         lateDeliveries == ParseInt(Get(sd, "Late_Deliveries"))
                     IN  Reply(200,
                           [on_time |-> JsSub(totalOrders, lateDeliveries),
                            late |-> lateDeliveries,
                            total |-> totalOrders], d)
                ELSE Reply(400,
                       [error |-> <<"Unknown supplier endpoint '", endpoint, "'">>], d)

\* suppliersData.find(item => item.Supplier_Name.toLowerCase() === ...):
\* the index of the first match (0 when there is none), or a TypeError when
\* a row without Supplier_Name is visited first
FindSupplier(rows, name) ==
    LET missing == {i \in 1..Len(rows) : "Supplier_Name" \notin DOMAIN rows[i]}
        hits == {i \in 1..Len(rows) \ missing : NameMatches(rows[i], name)}
        first == IF hits = {} THEN 0
                 ELSE CHOOSE i \in hits : \A j \in hits : i <= j
    IN  [thrown |-> \E i \in missing : first = 0 \/ i < first,
         index |-> first]

\* GET /api/suppliers/alternates/:supplier
H_supplierAlternates(supplier, d) ==
    LET found == FindSupplier(d["suppliers"], supplier)
    IN  IF found.thrown THEN Throws(d)
        ELSE IF found.index = 0
        THEN Reply(404, [error |-> supplier \o <<" not found">>], d)
        ELSE
        LET skus == Get(d["suppliers"][found.index], "SKU_No")
            filtered == FilterEq(d["alternateSuppliers"], "sku_id", skus)
            result == [i \in 1..Len(filtered) |->
                         [f \in {"sku_id", "supplier_name", "otd_percentage",
                                 "quality_score", "email", "location"} |->
                            Get(filtered[i], f)]]
        IN  Reply(200,
                  SelectSeq(result, LAMBDA r : Truthy(r["sku_id"])
                                               /\ Truthy(r["supplier_name"])),
                  d)

\* supplierInsightsData.filter(item => item.sku_id.toLowerCase() ===
\* sku.toLowerCase()): a TypeError when a visited row has no sku_id or sku
\* is undefined
InsightsBySku(rows, sku) ==
    IF Len(rows) > 0
       /\ (sku = Undefined \/ \E i \in 1..Len(rows) : "sku_id" \notin DOMAIN rows[i])
    THEN [thrown |-> TRUE, rows |-> <<>>]
    ELSE [thrown |-> FALSE,
          rows |-> SelectSeq(rows, LAMBDA r :
                      ToLowerCase(r["sku_id"]) = ToLowerCase(sku))]

\* GET /api/suppliers/insight/:identifier
H_supplierInsight(identifier, d) ==
    LET found == FindSupplier(d["suppliers"], identifier)
        supplierMatch == d["suppliers"][found.index]
        skuInsights == InsightsBySku(d["supplierInsights"],
                                     Get(supplierMatch, "SKU_No"))
        skuMatch == InsightsBySku(d["supplierInsights"], identifier)
    IN  IF found.thrown THEN Throws(d)
        ELSE IF found.index # 0 /\ skuInsights.thrown THEN Throws(d)
        ELSE IF found.index # 0 /\ Len(skuInsights.rows) > 0
        THEN Reply(200,
               [sku_id |-> Get(supplierMatch, "SKU_No"),
                supplier_name |-> supplierMatch["Supplier_Name"],
                insight |-> Get(skuInsights.rows[1], "ai_supplier_insight")], d)
        ELSE IF skuMatch.thrown THEN Throws(d)
        ELSE IF Len(skuMatch.rows) > 0
        THEN Reply(200,
               [sku_id |-> identifier,
                insight |-> Get(skuMatch.rows[1], "ai_supplier_insight")], d)
        ELSE Reply(404,
               [error |-> <<"No AI insight found for ">> \o identifier], d)

---------------------------------------------------------------------------
(* Group totals, sorting and rounding, and the handlers that chart and    *)
(* summarise.  Numbers are integers or NaN; a quotient is kept as a       *)
(* fraction.                                                              *)

\* the string a value becomes when it is used as a property name
PropertyKey(x) ==
    IF x = Undefined THEN <<"u", "n", "d", "e", "f", "i", "n", "e", "d">>
    ELSE x

\* parseFloat(x || 0)
FloatOrZero(x) == IF Truthy(x) THEN ParseFloat(x) ELSE Num(0)

\* parseInt(x || 0)
IntOrZero(x) == IF Truthy(x) THEN ParseInt(x) ELSE Num(0)

\* sum + amounts[1] + ... + amounts[n], starting from 0
RECURSIVE SumOf(_, _)
SumOf(amounts, n) ==
    IF n = 0 THEN Num(0) ELSE JsAdd(SumOf(amounts, n - 1), amounts[n])

\* the name of the accessor of an object's prototype
ProtoName == <<"_", "_", "p", "r", "o", "t", "o", "_", "_">>

\* names of functions that the object literal {} inherits from
\* Object.prototype
InheritedNames ==
    {<<"c", "o", "n", "s", "t", "r", "u", "c", "t", "o", "r">>,
     <<"v", "a", "l", "u", "e", "O", "f">>}

\* totals[key] = (totals[key] || 0) + amount for each record in turn, the
\* own keys of totals in the order of their first use.  A total that has
\* become 0 or NaN is falsy and restarts from 0.  Where totals has no own
\* property key, totals[key] reads what {} inherits: for "__proto__" the
\* prototype, and the assignment of the concatenated string to it does
\* nothing; for the name of an inherited function that function, and the
\* concatenated string becomes the total.
RECURSIVE GroupTotals(_, _, _)
GroupTotals(keys, amounts, n) ==
    IF n = 0 THEN <<>>
    ELSE LET acc == GroupTotals(keys, amounts, n - 1)
             key == PropertyKey(keys[n])
             at == {i \in 1..Len(acc) : acc[i].key = key}
         IN  IF at = {}
             THEN IF key = ProtoName THEN acc
                  ELSE IF key \in InheritedNames
                  THEN Append(acc, [key |-> key, total |-> JsAdd(Text, amounts[n])])
                  ELSE Append(acc, [key |-> key,
                                    total |-> JsAdd(Num(0), amounts[n])])
             ELSE LET i == CHOOSE i \in at : TRUE
                      prev == IF IsText(acc[i].total) THEN acc[i].total
                              ELSE IF acc[i].total.nan \/ acc[i].total.v = 0
                              THEN Num(0) ELSE acc[i].total
                  IN  [acc EXCEPT ![i].total = JsAdd(prev, amounts[n])]

\* x put into the sequence s, sorted by falling total, after the entries
\* that need not come after it; the comparator's NaN counts as 0
RECURSIVE InsertByTotal(_, _)
InsertByTotal(s, x) ==
    IF s = <<>> THEN <<x>>
    ELSE LET last == s[Len(s)]
             diff == IF last.total.nan \/ x.total.nan THEN 0
                     ELSE x.total.v - last.total.v
         IN  IF diff <= 0 THEN Append(s, x)
             ELSE Append(InsertByTotal(SubSeq(s, 1, Len(s) - 1), x), last)

\* .sort(([, a], [, b]) => b - a) on the entries of a totals object
RECURSIVE SortByTotal(_, _)
SortByTotal(a, n) ==
    IF n = 0 THEN <<>> ELSE InsertByTotal(SortByTotal(a, n - 1), a[n])

\* a property name that is an array index: a canonical decimal numeral
IsArrayIndex(key) ==
    /\ Len(key) > 0
    /\ \A i \in 1..Len(key) : key[i] \in Digits
    /\ Len(key) > 1 => key[1] # "0"

\* Object.entries, Object.keys and Object.values list the array-index keys
\* first, in rising numeric order, and then the other keys in the order of
\* their insertion
ObjectEntries(acc) ==
    LET indexed == SelectSeq(acc, LAMBDA e : IsArrayIndex(e.key))
        byValue == SortByTotal(
                     [i \in 1..Len(indexed) |->
                        [total |-> Num(0 - DigitsValue(indexed[i].key,
                                                       Len(indexed[i].key))),
                         entry |-> indexed[i]]],
                     Len(indexed))
    IN  [i \in 1..Len(byValue) |-> byValue[i].entry]
        \o SelectSeq(acc, LAMBDA e : ~IsArrayIndex(e.key))

SalesAmount(item) == FloatOrZero(Get(item, "Sales"))

One(item) == Num(1)

UnitsOf(item) == IntOrZero(Get(item, "unit"))

\* what a row adds to the total of its group: its sales, one for a count,
\* or its units
AmountOf(item, amount) ==
    IF amount = "Sales" THEN SalesAmount(item)
    ELSE IF amount = "unit" THEN UnitsOf(item) ELSE One(item)

\* the entries of the totals of the amount over the rows, grouped by field f
GroupBy(rows, f, amount) ==
    ObjectEntries(GroupTotals([i \in 1..Len(rows) |-> Get(rows[i], f)],
                              [i \in 1..Len(rows) |-> AmountOf(rows[i], amount)],
                              Len(rows)))

\* the model's characters in the order of their UTF-16 code units
CharOrder ==
    <<" ", "%", "-", "0", "1", "2", "3", "4", "5", "6", "7", "8", "9",
      "A", "B", "N", "S", "T", "a", "b", "d", "e", "f", "i", "n", "s", "t", "u">>

CharCode(c) == CHOOSE i \in 1..Len(CharOrder) : CharOrder[i] = c

\* a < b on strings
RECURSIVE StringLess(_, _)
StringLess(a, b) ==
    IF b = <<>> THEN FALSE
    ELSE IF a = <<>> THEN TRUE
    ELSE IF Head(a) = Head(b) THEN StringLess(Tail(a), Tail(b))
    ELSE CharCode(Head(a)) < CharCode(Head(b))

RECURSIVE InsertString(_, _)
InsertString(s, x) ==
    IF s = <<>> THEN <<x>>
    ELSE IF ~StringLess(x, s[Len(s)]) THEN Append(s, x)
    ELSE Append(InsertString(SubSeq(s, 1, Len(s) - 1), x), s[Len(s)])

\* .sort() on an array of strings
RECURSIVE SortStrings(_, _)
SortStrings(a, n) ==
    IF n = 0 THEN <<>> ELSE InsertString(SortStrings(a, n - 1), a[n])

\* [...new Set(a)]: the first occurrence of every value, in order
RECURSIVE Distinct(_, _)
Distinct(a, n) ==
    IF n = 0 THEN <<>>
    ELSE LET before == Distinct(a, n - 1)
         IN  IF \E i \in 1..Len(before) : before[i] = a[n] THEN before
             ELSE Append(before, a[n])

\* new Set(rows.map(item => item[f])).size
CountDistinct(rows, f) == Cardinality({Get(rows[i], f) : i \in 1..Len(rows)})

\* sum / length, NaN for 0 / 0 (no rows)
Average(sum, length) ==
    IF length = 0 THEN [nan |-> TRUE, num |-> 0, den |-> 1] ELSE JsDiv(sum, length)

\* Math.round(q * scale) / 100 for a fraction q that is not negative
RoundToHundredths(q, scale) ==
    IF q.nan THEN q
    ELSE [nan |-> FALSE,
          num |-> (2 * scale * q.num + q.den) \div (2 * q.den),
          den |-> 100]

\* A product list in which the first record of an id decides the name.
H_products_FirstWins(d) ==
    LET rows == d["forecast"]
        ids == Distinct([i \in 1..Len(rows) |-> Get(rows[i], "PRODUCT_CARD_ID")],
                        Len(rows))
        FirstOf(id) ==
            rows[CHOOSE i \in 1..Len(rows) :
                   /\ Get(rows[i], "PRODUCT_CARD_ID") = id
                   /\ \A j \in 1..(i - 1) :
                        Get(rows[j], "PRODUCT_CARD_ID") # id]
    IN  Reply(200,
              [k \in 1..Len(ids) |->
                 [PRODUCT_CARD_ID |-> Get(FirstOf(ids[k]), "PRODUCT_CARD_ID"),
                  PRODUCT_NAME |-> Get(FirstOf(ids[k]), "PRODUCT_NAME")]],
              d)

\* GET /api/products: a Map keeps a key at the place of its first insertion
\* and holds the value of its last
H_products(d) ==
    LET rows == d["forecast"]
        ids == Distinct([i \in 1..Len(rows) |-> Get(rows[i], "PRODUCT_CARD_ID")],
                        Len(rows))
        LastOf(id) ==
            rows[CHOOSE i \in 1..Len(rows) :
                   /\ Get(rows[i], "PRODUCT_CARD_ID") = id
                   /\ \A j \in (i + 1)..Len(rows) :
                        Get(rows[j], "PRODUCT_CARD_ID") # id]
    IN  Reply(200,
              [k \in 1..Len(ids) |->
                 [PRODUCT_CARD_ID |-> Get(LastOf(ids[k]), "PRODUCT_CARD_ID"),
                  PRODUCT_NAME |-> Get(LastOf(ids[k]), "PRODUCT_NAME")]],
              d)

\* GET /api/sales/kpis
H_salesKpis(d) ==
    LET salesData == d["sales"]
        n == Len(salesData)
        totalSales == SumOf([i \in 1..n |-> SalesAmount(salesData[i])], n)
        avgDiscount ==
            Average(SumOf([i \in 1..n |->
                             FloatOrZero(Get(salesData[i],
                                             "Order Item Discount Rate"))], n), n)
    IN  IF n = 0 THEN Reply(200, [error |-> "Sales data not found"], d)
        ELSE Reply(200,
               [total_orders |-> CountDistinct(salesData, "Order Item Id"),
                total_sales |-> RoundToHundredths(JsDiv(totalSales, 1), 100),
                avg_discount |-> RoundToHundredths(avgDiscount, 10000),
                late_deliveries |->
                    Len(FilterEq(salesData, "Late_delivery_risk", <<"1">>))],
               d)

\* `${date.getFullYear()}-${String(date.getMonth() + 1).padStart(2, '0')}`
MonthKey(date) ==
    IF date = InvalidDate THEN <<"N", "a", "N", "-", "N", "a", "N">>
    ELSE TwoDigits(date.y \div 100) \o TwoDigits(date.y % 100) \o <<"-">>
         \o TwoDigits(date.m)

\* the months' totals in the order of Object.entries(monthlySales).sort():
\* the entries are compared as the strings "key,total", and the keys, all
\* different and all seven characters long, decide
MonthlySales(salesData) ==
    LET n == Len(salesData)
        monthlySales ==
            GroupTotals([i \in 1..n |->
                           MonthKey(NewDate(Get(salesData[i],
                                                "order date (DateOrders)")))],
                        [i \in 1..n |-> SalesAmount(salesData[i])], n)
        months == SortStrings([i \in 1..Len(monthlySales) |-> monthlySales[i].key],
                              Len(monthlySales))
        TotalOf(key) ==
            monthlySales[CHOOSE i \in 1..Len(monthlySales) :
                           monthlySales[i].key = key].total
    IN  [months |-> months,
         sales |-> [i \in 1..Len(months) |-> TotalOf(months[i])]]

Keys(entries) == [i \in 1..Len(entries) |-> entries[i].key]

Totals(entries) == [i \in 1..Len(entries) |-> entries[i].total]

\* .slice(0, k)
Slice(a, k) == SubSeq(a, 1, IF Len(a) < k THEN Len(a) ELSE k)

\* GET /api/sales/:metric
H_salesMetric(metric, d) ==
    LET salesData == d["sales"]
        Sorted(entries) == SortByTotal(entries, Len(entries))
    IN  IF Len(salesData) = 0 THEN Reply(200, [error |-> "Data not loaded"], d)
        ELSE IF metric = "city-sales"
        THEN LET sortedCities ==
                     Slice(Sorted(GroupBy(salesData, "Customer City", "Sales")), 10)
             IN  Reply(200, [cities |-> Keys(sortedCities),
                             sales |-> Totals(sortedCities)], d)
        ELSE IF metric = "category-distribution"
        THEN LET categorySales == GroupBy(salesData, "Category Name", "Sales")
             IN  Reply(200, [categories |-> Keys(categorySales),
                             sales |-> Totals(categorySales)], d)
        ELSE IF metric = "monthly-sales"
        THEN Reply(200, MonthlySales(salesData), d)
        ELSE IF metric = "shipping-mode"
        THEN LET shippingModes == GroupBy(salesData, "Shipping Mode", "count")
             IN  Reply(200, [modes |-> Keys(shippingModes),
                             counts |-> Totals(shippingModes)], d)
        ELSE IF metric = "region-sales"
        THEN LET sortedRegions ==
                     Sorted(GroupBy(salesData, "Order Region", "Sales"))
             IN  Reply(200, [regions |-> Keys(sortedRegions),
                             sales |-> Totals(sortedRegions)], d)
        ELSE IF metric = "top-products"
        THEN LET sortedProducts ==
                     Slice(Sorted(GroupBy(salesData, "Product Name", "Sales")), 5)
             IN  Reply(200, [products |-> Keys(sortedProducts),
                             sales |-> Totals(sortedProducts)], d)
        ELSE Reply(400, [error |-> <<"Invalid metric '", metric, "'">>], d)

\* parseInt(item.Available || 0) < parseInt(item.Reorder_Point || 0); a
\* comparison with NaN is false
BelowReorderPoint(item) ==
    LET available == IntOrZero(Get(item, "Available"))
        reorder == IntOrZero(Get(item, "Reorder_Point"))
    IN  ~available.nan /\ ~reorder.nan /\ available.v < reorder.v

SumInt(rows, f) ==
    SumOf([i \in 1..Len(rows) |-> IntOrZero(Get(rows[i], f))], Len(rows))

\* GET /api/inventory/kpis
H_inventoryKpis(d) ==
    LET stockData == d["stock"]
        avgLeadTime ==
            Average(SumOf([i \in 1..Len(stockData) |->
                             FloatOrZero(Get(stockData[i], "Lead_Time_Days"))],
                          Len(stockData)),
                    Len(stockData))
    IN  Reply(200,
              [total_skus |-> CountDistinct(stockData, "SKU_No"),
               total_stock_on_hand |-> SumInt(stockData, "Stock_On_Hand"),
               in_transit |-> SumInt(stockData, "In_Transit"),
               below_reorder_point |->
                   Len(SelectSeq(d["alert"], BelowReorderPoint)),
               avg_lead_time |-> RoundToHundredths(avgLeadTime, 100),
               scheduled_qty |-> SumInt(d["schedule"], "Scheduled_Quantity")],
              d)

\* GET /api/inventory/reorder_chart
H_reorderChart(d) ==
    Reply(200,
          [i \in 1..Len(d["alert"]) |->
             [SKU_No |-> Get(d["alert"][i], "SKU_No"),
              Available |-> IntOrZero(Get(d["alert"][i], "Available")),
              Reorder_Point |-> IntOrZero(Get(d["alert"][i], "Reorder_Point"))]],
          d)

\* GET /api/inventory/lead_times
H_leadTimes(d) ==
    Reply(200,
          [i \in 1..Len(d["stock"]) |->
             [SKU_No |-> Get(d["stock"][i], "SKU_No"),
              Lead_Time_Days |->
                  FloatOrZero(Get(d["stock"][i], "Lead_Time_Days"))]],
          d)

\* GET /api/inventory/suppliers
H_inventorySuppliers(d) ==
    LET filtered == SelectSeq(d["alert"], BelowReorderPoint)
        supplierCounts == GroupBy(filtered, "Supplier", "count")
    IN  Reply(200,
              [i \in 1..Len(supplierCounts) |->
                 [Supplier |-> supplierCounts[i].key,
                  Alert_Count |-> supplierCounts[i].total]],
              d)

\* GET /api/procurement/insight/:sku_id
H_procurementInsight(sku_id, d) ==
    LET match == FilterEq(d["procurement"], "SKU_ID", sku_id)
    IN  IF Len(match) = 0
        THEN Reply(404, [message |-> <<"No insight found for SKU ">> \o sku_id], d)
        ELSE Reply(200, match, d)

\* GET /api/kpis, with its fixed day
H_kpis(d) ==
    LET attendanceData == d["attendance"]
        stationScheduleData == d["stationSchedule"]
        today == IsoDate(2018, 1, 1)
        scheduledToday ==
            FilterEq(stationScheduleData, "scheduled_date",
                     TwoDigits(1) \o <<"-">> \o TwoDigits(1) \o <<"-">>
                     \o TwoDigits(20) \o TwoDigits(18))
    IN  Reply(200,
              [total_operators |-> CountDistinct(attendanceData, "Operator_ID"),
               absent_today |->
                   Len(SelectSeq(attendanceData,
                         LAMBDA item : Get(item, "Date") = today
                                       /\ Get(item, "Present") = <<"N", "o">>)),
               total_units_scheduled |-> SumInt(scheduledToday, "unit"),
               unique_products |->
                   CountDistinct(stationScheduleData, "product_name")],
              d)

\* GET /api/schedule
H_schedule(d) ==
    LET rows == d["stationSchedule"]
    IN  IF Len(rows) = 0
        THEN Reply(500, [error |-> "Schedule file not found or corrupted"], d)
        ELSE Reply(200,
               [i \in 1..Len(rows) |->
                  [Start_Time |-> Get(rows[i], "time"),
                   Station_Name |-> Get(rows[i], "station"),
                   Operator_Name |-> Get(rows[i], "operator"),
                   Model |-> Get(rows[i], "product_model"),
                   Product |-> Get(rows[i], "product_name"),
                   Date |-> Get(rows[i], "scheduled_date"),
                   PO |-> Get(rows[i], "po_number"),
                   Units |-> Get(rows[i], "unit")]],
               d)

\* GET /api/schedule/chart and GET /api/schedule/operator_workload: the
\* units per station, or per operator
H_scheduleTotals(groupField, failure, d) ==
    LET totals == GroupBy(d["stationSchedule"], groupField, "unit")
    IN  IF Len(d["stationSchedule"]) = 0 THEN Reply(500, [error |-> failure], d)
        ELSE Reply(200,
               [i \in 1..Len(totals) |->
                  [f \in {groupField, "Total_Units"} |->
                     IF f = groupField THEN totals[i].key ELSE totals[i].total]],
               d)

\* GET /api/insights1/:operator_id
H_operatorInsight(operator_id, d) ==
    LET filtered == FilterEq(d["operatorInsights"], "operator_id", operator_id)
    IN  IF Len(filtered) = 0
        THEN Reply(200, [message |-> <<"No insights found for ">> \o operator_id], d)
        ELSE Reply(200, [insights1 |-> filtered], d)

\* the values of field f that are truthy, each once, sorted as strings
SortedDistinct(rows, f) ==
    LET named == SelectSeq(rows, LAMBDA r : Truthy(Get(r, f)))
        values == Distinct([i \in 1..Len(named) |-> named[i][f]], Len(named))
    IN  SortStrings(values, Len(values))

\* GET /api/operators/dropdown
H_operatorsDropdown(d) ==
    Reply(200, [operators |-> SortedDistinct(d["operatorInsights"], "operator_id")], d)

\* GET /api/suppliers/list
H_suppliersList(d) ==
    Reply(200, SortedDistinct(d["suppliers"], "Supplier_Name"), d)

---------------------------------------------------------------------------
(* Requests. *)

\* the handler of the route that Dispatch picks, applied to the request
Handle(req, d) ==
    LET route == Dispatch(req.path)
        q == req.query
    IN  CASE route = "forecasts" -> H_forecasts(q, d)
          [] route = "forecastsWeekly" -> H_forecastsAggregated("weekly", q, d)
          [] route = "forecastsMonthly" -> H_forecastsAggregated("monthly", q, d)
          [] route = "forecastsQuarterly" -> H_forecastsAggregated("quarterly", q, d)
          [] route = "bulletInsights" -> H_bulletInsights(q, d)
          [] route = "products" -> H_products(d)
          [] route = "salesKpis" -> H_salesKpis(d)
          [] route = "salesMetric" -> H_salesMetric(req.path[3], d)
          [] route = "inventoryKpis" -> H_inventoryKpis(d)
          [] route = "reorderChart" -> H_reorderChart(d)
          [] route = "leadTimes" -> H_leadTimes(d)
          [] route = "inventorySuppliers" -> H_inventorySuppliers(d)
          [] route = "inventoryDataset" -> H_inventoryDataset(req.path[3], d)
          [] route = "procurementInsights" -> H_procurementInsights(d)
          [] route = "procurementInsight" -> H_procurementInsight(req.path[4], d)
          [] route = "kpis" -> H_kpis(d)
          [] route = "schedule" -> H_schedule(d)
          [] route = "scheduleChart" ->
                 H_scheduleTotals("station", "Chart data failed", d)
          [] route = "operatorWorkload" ->
                 H_scheduleTotals("operator", "Workload data failed", d)
          [] route = "attendance" -> H_attendance(d)
          [] route = "attendanceTable" -> H_attendanceTable(d)
          [] route = "leaves" -> H_leaves(d)
          [] route = "operatorInsights" -> H_operatorInsights(d)
          [] route = "operatorInsight" -> H_operatorInsight(req.path[3], d)
          [] route = "operatorsDropdown" -> H_operatorsDropdown(d)
          [] route = "supplierEndpoint" ->
                 H_supplierEndpoint(req.path[3], req.path[4], d)
          [] route = "suppliersList" -> H_suppliersList(d)
          [] route = "supplierAlternates" -> H_supplierAlternates(req.path[4], d)
          [] route = "supplierInsight" -> H_supplierInsight(req.path[4], d)
          [] route = "insightsPeriod" -> H_insightsPeriod(req.path[3], d)
          [] route = "health" -> H_health(d)
          [] route = "notFound" -> H_notFound(d)

Req(path, query) == [path |-> path, query |-> query]

NoQuery == <<>>

\* The server handles one request: the response, and the datasets as the
\* handler leaves them.  The server listens from before the loads start
\* until the process exits.
Request(req) ==
    /\ phase # "exited"
    /\ LET h == Handle(req, ds)
       IN  /\ resp' = [req |-> req, route |-> Dispatch(req.path),
                       status |-> h.status, body |-> h.body,
                       thrown |-> h.thrown]
           /\ ds' = h.store
    /\ UNCHANGED <<files, status, pos, buf, phase, exitCode>>

---------------------------------------------------------------------------
(* The startup specification: the streams load while requests arrive. *)

StartupRequests ==
    {Req(<<"api", "forecasts">>, NoQuery),
     Req(<<"api", "leaves">>, NoQuery),
     Req(<<"api", "inventory", "stock_levels">>, NoQuery),
     Req(<<"api", "insights", "monthly">>, NoQuery)}

Init == InitStartup

Next ==
    \/ \E s \in Streams : StreamData(s)
    \/ \E s \in Streams : StreamEnd(s)
    \/ \E s \in Streams : StreamError(s)
    \/ \E s \in Streams : ReadStreamError(s)
    \/ \E req \in StartupRequests : Request(req)

Spec == Init /\ [][Next]_vars

---------------------------------------------------------------------------
(* Claims about startup, checked under Spec. *)

\* every stream that feeds the dataset has had its 'end' event
Loaded(d) == \A s \in StreamsOf(d) : status[s] = "ended"

AllLoaded == \A d \in Datasets : Loaded(d)

PartlyLoaded == (\E d \in Datasets : Loaded(d)) /\ ~AllLoaded

\* C1: no request is handled before every startup load has completed: if a
\* response has been produced, all the dataset variables have been assigned
\* (the loads are never undone, so this says the first request came after
\* the last assignment).
C1_NoRequestBeforeLoaded == resp # NoResp => phase = "ready" /\ AllLoaded

\* C2: a failed load makes the process exit with a non-zero code, nothing
\* is retried or done after the exit, and no handler runs in a state in
\* which some datasets are loaded and others are not.
C2_FailureAbortsNoPartialState ==
    [][/\ (phase' = "exited" => exitCode' # 0)
       /\ (phase = "exited" => UNCHANGED vars)
       /\ (resp' # resp => ~PartlyLoaded)]_vars

\* C3: every dataset variable is either its initial empty array or the
\* complete content of its file in file order (for the leave requests: all
\* rows of both files, each file's rows in order), never a part of it; and
\* so is what the handlers that dump a dataset have answered.
C3_DatasetEmptyOrComplete ==
    /\ \A d \in Datasets \ {"leaveRequests"} :
         ds[d] = <<>> \/ ds[d] = ConvertFile(d, files[d])
    /\ \/ ds["leaveRequests"] = <<>>
       \/ ds["leaveRequests"] \in Merges(files["leaveJan"], files["leaveFeb"])
    /\ resp.route = "forecasts" =>
         resp.body = <<>> \/ resp.body = ConvertFile("forecast", files["forecast"])
    /\ resp.route = "inventoryDataset" =>
         resp.body = <<>> \/ resp.body = files["stock"]
    /\ resp.route = "insightsPeriod" =>
         resp.body = <<>> \/ resp.body = files["monthlyInsights"]
    /\ resp.route = "leaves" =>
         \/ resp.body = <<>>
         \/ Len(resp.body) = Len(files["leaveJan"]) + Len(files["leaveFeb"])

\* a request for the forecasts was answered with the empty array and the
\* forecast stream is in the middle of its file
C3_Witness ==
    /\ status["forecast"] = "open"
    /\ 0 < pos["forecast"] /\ pos["forecast"] < Len(files["forecast"])
    /\ buf["forecast"] # <<>>
    /\ resp.route = "forecasts" /\ resp.body = <<>>

\* C19: however the 'data' and 'end' events of the January and February
\* leave streams interleave, leaveRequestsData is assigned only once both
\* streams have ended: it is empty while either is open, and from then on
\* it holds every row of both files exactly once, each file's rows in that
\* file's order.
C19_LeaveRequestsAfterBothEnded ==
    IF \E s \in LeaveStreams : status[s] = "open"
    THEN ds["leaveRequests"] = <<>>
    ELSE /\ Len(ds["leaveRequests"])
              = Len(files["leaveJan"]) + Len(files["leaveFeb"])
         /\ ds["leaveRequests"] \in Merges(files["leaveJan"], files["leaveFeb"])

\* both leave streams have ended after their rows arrived interleaved: the
\* dataset is neither January's rows followed by February's nor the reverse
C19_Witness ==
    /\ \A s \in LeaveStreams : status[s] = "ended"
    /\ ds["leaveRequests"] # <<>>
    /\ ds["leaveRequests"] # files["leaveJan"] \o files["leaveFeb"]
    /\ ds["leaveRequests"] # files["leaveFeb"] \o files["leaveJan"]

---------------------------------------------------------------------------
(* The serving specifications: every stream has ended, startup is over,   *)
(* and requests are handled.  The files of the datasets under study are   *)
(* drawn from bounded sets of rows; the others are the sample files.      *)

SeqsUpTo(S, n) == UNION {[1..k -> S] : k \in 0..n}

\* the state in which the files F have been loaded completely
InitLoaded(F) ==
    /\ files = F
    /\ status = [s \in Streams |-> "ended"]
    /\ pos = [s \in Streams |-> Len(F[s])]
    /\ buf = [d \in Datasets |->
                IF d = "leaveRequests" THEN F["leaveJan"] \o F["leaveFeb"]
                ELSE ConvertFile(d, F[d])]
    /\ ds = buf
    /\ phase = "ready"
    /\ exitCode = -1
    /\ resp = NoResp

(* Filters, and the product list that feeds their dropdowns. *)

\* rows of all_pump_forecasts.csv: two products, one row without an id
ForecastFilterRows ==
    {[PRODUCT_CARD_ID |-> <<"1">>, PRODUCT_NAME |-> <<"A">>,
      Date |-> IsoDate(2024, 1, 1), Forecasted_Demand |-> <<"5">>],
     [PRODUCT_CARD_ID |-> <<"1">>, PRODUCT_NAME |-> <<"B">>,
      Date |-> IsoDate(2024, 1, 1), Forecasted_Demand |-> <<"5">>],
     [PRODUCT_CARD_ID |-> <<"2">>, PRODUCT_NAME |-> <<"A">>,
      Date |-> IsoDate(2024, 1, 1), Forecasted_Demand |-> <<"5">>],
     [PRODUCT_NAME |-> <<"A">>,
      Date |-> IsoDate(2024, 1, 1), Forecasted_Demand |-> <<"5">>]}

\* rows of groq_bullet_monthly_insights.csv
InsightFilterRows ==
    {[Month |-> <<"1">>, PRODUCT_CARD_ID |-> <<"1">>, PRODUCT_NAME |-> <<"A">>],
     [Month |-> <<"2">>, PRODUCT_CARD_ID |-> <<"1">>, PRODUCT_NAME |-> <<"A">>],
     [Month |-> <<"1">>, PRODUCT_CARD_ID |-> <<"2">>, PRODUCT_NAME |-> <<"B">>]}

\* req.query: each of the parameters absent, given with a value that occurs
\* in the rows, or given as the empty string
FilterQueries(params) ==
    UNION {{q \in [P -> {<<"1">>, <<"A">>, <<>>}] :
              \A f \in P : q[f] \in {<<>>, IF f = "PRODUCT_NAME" THEN <<"A">>
                                           ELSE <<"1">>}} :
             P \in SUBSET params}

InitFilter ==
    \/ \E rows \in SeqsUpTo(ForecastFilterRows, MaxLen) :
         InitLoaded([SampleFiles EXCEPT !["forecast"] = rows])
    \/ \E rows \in SeqsUpTo(InsightFilterRows, MaxLen) :
         InitLoaded([SampleFiles EXCEPT !["insights"] = rows])

NextFilter ==
    \/ \E q \in FilterQueries({"PRODUCT_CARD_ID", "PRODUCT_NAME"}) :
         Request(Req(<<"api", "forecasts">>, q))
    \/ \E q \in FilterQueries({"Month", "PRODUCT_CARD_ID", "PRODUCT_NAME"}) :
         Request(Req(<<"api", "insights">>, q))
    \/ Request(Req(<<"api", "products">>, NoQuery))

SpecFilter == InitFilter /\ [][NextFilter]_vars

(* Period aggregation. *)

\* rows of all_pump_forecasts.csv around the turn of the year 2024/2025:
\* Monday December 30th and Friday January 3rd, which lie in one week
\* whether weeks start on Sunday or on Monday, in every time zone, and a
\* date that does not parse; a small demand, one at the limit of the
\* significand, and one that does not parse
ForecastPeriodRows ==
    {[PRODUCT_CARD_ID |-> <<"1">>, PRODUCT_NAME |-> <<"A">>,
      Date |-> date, Forecasted_Demand |-> demand] :
       date \in {IsoDate(2024, 12, 30), IsoDate(2025, 1, 3), <<"B">>},
       demand \in {<<"1">>, <<"4", "0", "9", "6">>, <<"a">>}}

InitAggregate ==
    \E rows \in SeqsUpTo(ForecastPeriodRows, MaxRecords) :
        InitLoaded([SampleFiles EXCEPT !["forecast"] = rows])

NextAggregate ==
    \E g \in {"weekly", "monthly", "quarterly"} :
        Request(Req(<<"api", "forecasts", g>>, NoQuery))

SpecAggregate == InitAggregate /\ [][NextAggregate]_vars

(* The supplier routes. *)

\* rows of suppliers.csv: a complete one, one without the percentages, one
\* without a name
SupplierRows ==
    {[Supplier_Name |-> <<"A", "b">>, SKU_No |-> <<"S", "1">>,
      Lead_Time_Days |-> <<"7">>, Fulfillment_Rate |-> <<"9", "%">>,
      OTD_Percentage |-> <<"8", "%">>, Quality_Score |-> <<"4">>,
      Late_Deliveries |-> <<"1">>, Total_Orders |-> <<"5">>],
     [Supplier_Name |-> <<"B">>, SKU_No |-> <<"s", "1">>,
      Late_Deliveries |-> <<"1">>, Total_Orders |-> <<"5">>],
     [SKU_No |-> <<"S", "1">>]}

\* contents of alternate_suppliers.csv
AlternateFiles ==
    LET full == [sku_id |-> <<"S", "1">>, supplier_name |-> <<"T">>,
                 otd_percentage |-> <<"9">>, quality_score |-> <<"4">>,
                 email |-> <<"t">>, location |-> <<"b">>]
        nameless == [sku_id |-> <<"S", "1">>, email |-> <<"t">>]
        lower == [sku_id |-> <<"s", "1">>, supplier_name |-> <<"T">>]
    IN  {<<>>, <<full, nameless, lower>>, <<lower, full>>}

\* contents of ai_supplier_insight_output.csv
SupplierInsightFiles ==
    LET upper == [sku_id |-> <<"S", "1">>, ai_supplier_insight |-> <<"1">>]
        lower == [sku_id |-> <<"s", "1">>, ai_supplier_insight |-> <<"2">>]
        skuless == [ai_supplier_insight |-> <<"3">>]
    IN  {<<>>, <<upper, lower>>, <<lower, skuless>>}

InitSuppliers ==
    \E rows \in SeqsUpTo(SupplierRows, MaxLen) :
      \E alternates \in AlternateFiles :
        \E insights \in SupplierInsightFiles :
          InitLoaded([SampleFiles EXCEPT !["suppliers"] = rows,
                                         !["alternateSuppliers"] = alternates,
                                         !["supplierInsights"] = insights])

\* a supplier's name in another case, a name no row has, and a SKU
SupplierIdentifiers == {<<"a", "B">>, <<"T">>, <<"S", "1">>}

NextSuppliers ==
    \E e \in {"kpis", "metrics", "delivery-stats", "alternates", "insight",
              "bogus"} :
      \E s \in SupplierIdentifiers :
        Request(Req(<<"api", "suppliers", e, s>>, NoQuery))

SpecSuppliers == InitSuppliers /\ [][NextSuppliers]_vars

(* Every route. *)

\* rows of operator_attendance.csv, on two days and with a date that does
\* not parse
AttendanceRows ==
    {[Date |-> date, Operator_ID |-> <<"1">>, Operator_Name |-> <<"A">>,
      Present |-> <<"N", "o">>] :
        date \in {IsoDate(2018, 1, 2), IsoDate(2018, 1, 1), <<"B">>}}
    \cup {[Date |-> IsoDate(2018, 1, 1), Operator_ID |-> <<"2">>,
           Operator_Name |-> <<"B">>, Present |-> <<"N", "o">>,
           Shift |-> <<"N">>]}

\* rows of Pump_Data.csv: two months, two groups (the cities named by
\* numerals), and a row with neither a date nor a group and with sales that
\* do not parse
SalesRows ==
    {[f \in {"Order Item Id", "Sales", "order date (DateOrders)",
             "Customer City", "Category Name", "Shipping Mode",
             "Order Region", "Product Name", "Order Item Discount Rate",
             "Late_delivery_risk"} |->
        CASE f = "Sales" -> <<"7">>
          [] f = "order date (DateOrders)" -> IsoDate(2018, 2, 1)
          [] f = "Order Item Discount Rate" -> <<"0">>
          [] f \in {"Order Item Id", "Late_delivery_risk"} -> <<"1">>
          [] f = "Customer City" -> <<"2">>
          [] OTHER -> <<"B">>],
     [f \in {"Order Item Id", "Sales", "order date (DateOrders)",
             "Customer City", "Category Name", "Shipping Mode",
             "Order Region", "Product Name"} |->
        CASE f = "Sales" -> <<"1", "0">>
          [] f = "order date (DateOrders)" -> IsoDate(2018, 1, 1)
          [] f = "Order Item Id" -> <<"2">>
          [] f = "Customer City" -> <<"1">>
          [] OTHER -> <<"A">>],
     [f \in {"Order Item Id", "Sales"} |->
        CASE f = "Sales" -> <<"a">> [] OTHER -> <<"1">>]}

InitServe ==
    \/ \E rows \in SeqsUpTo(AttendanceRows, MaxLen) :
         InitLoaded([SampleFiles EXCEPT !["attendance"] = rows])
    \/ \E rows \in SeqsUpTo(SalesRows, MaxLen) :
         InitLoaded([SampleFiles EXCEPT !["sales"] = rows])

\* a request for every registered route, with listed and unlisted values of
\* the parameters, and one for no route
ServeRequests ==
    {Req(path, NoQuery) :
       path \in {<<"api", "forecasts", g>> :
                   g \in {"weekly", "monthly", "quarterly"}}
          \cup {<<"api", "sales", m>> :
                   m \in {"kpis", "city-sales", "category-distribution",
                          "monthly-sales", "shipping-mode", "region-sales",
                          "top-products", "bogus"}}
          \cup {<<"api", "inventory", n>> :
                   n \in {"kpis", "reorder_chart", "lead_times", "suppliers",
                          "stock_levels", "bogus", "constructor"}}
          \cup {<<"api", "insights", n>> : n \in {"bogus", "__proto__"}}
          \cup {<<"api", "products">>, <<"api", "procurement", "insights">>,
                <<"api", "procurement", "insight", <<"1">>>>,
                <<"api", "kpis">>, <<"api", "schedule">>,
                <<"api", "schedule", "chart">>,
                <<"api", "schedule", "operator_workload">>,
                <<"api", "attendance">>, <<"api", "attendance", "table">>,
                <<"api", "leaves">>, <<"api", "insights1", <<"1">>>>,
                <<"api", "operators", "dropdown">>,
                <<"api", "suppliers", "kpis", <<"1">>>>,
                <<"api", "suppliers", "list">>,
                <<"api", "suppliers", "alternates", <<"1">>>>,
                <<"api", "suppliers", "insight", <<"1">>>>,
                <<"api", "insights", "monthly">>, <<>>, <<"nowhere">>}}
    \cup {Req(<<"api", p>>, q) :
            p \in {"forecasts", "insights"},
            q \in {NoQuery, [PRODUCT_CARD_ID |-> <<"1">>]}}

NextServe == \E req \in ServeRequests : Request(req)

SpecServe == InitServe /\ [][NextServe]_vars

---------------------------------------------------------------------------
(* Claims about the handlers' effect on the datasets, checked under       *)
(* SpecServe.                                                             *)

\* C4: no request handler changes a loaded dataset: every step, which is
\* the handling of one request, leaves the contents and the order of every
\* dataset as they were.
C4_HandlersLeaveDatasets == [][ds' = ds]_vars

\* the attendance was answered sorted by date while the dataset, two rows
\* with the later day first, still is as loaded
C4_Witness ==
    /\ resp.route = "attendance"
    /\ Len(ds["attendance"]) = 2
    /\ ds["attendance"][1]["Date"] = IsoDate(2018, 1, 2)
    /\ ds["attendance"][2]["Date"] = IsoDate(2018, 1, 1)
    /\ resp.body[1].date = IsoDate(2018, 1, 1)
    /\ resp.body[2].date = IsoDate(2018, 1, 2)

\* the values of :metric that GET /api/sales/:metric lists
SalesMetrics ==
    {"city-sales", "category-distribution", "monthly-sales", "shipping-mode",
     "region-sales", "top-products"}

\* C15: GET /api/inventory/{dataset}, GET /api/insights/{period} and GET
\* /api/sales/{metric} answer 400 for every value of the parameter that is
\* not listed, whatever the datasets hold, and 200 with the data for every
\* listed value.
C15_UnlistedParameter400 ==
    /\ resp.route = "inventoryDataset" =>
         IF resp.req.path[3] \in DOMAIN InventoryFileMap
         THEN /\ resp.status = 200
              /\ resp.body = ds[InventoryFileMap[resp.req.path[3]]]
         ELSE resp.status = 400
    /\ resp.route = "insightsPeriod" =>
         IF resp.req.path[3] \in DOMAIN PeriodFileMap
         THEN /\ resp.status = 200
              /\ resp.body = ds[PeriodFileMap[resp.req.path[3]]]
         ELSE resp.status = 400
    /\ resp.route = "salesMetric" =>
         IF resp.req.path[3] \in SalesMetrics
         THEN resp.status = 200 /\ (ds["sales"] # <<>> => "sales" \in DOMAIN resp.body
                                                          \/ "counts" \in DOMAIN resp.body)
         ELSE resp.status = 400

---------------------------------------------------------------------------
(* Claims about the supplier routes, checked under SpecSuppliers. *)

\* the request went to /api/suppliers/<word>/<something>
AskedFor(word) ==
    /\ Len(resp.req.path) = 4
    /\ resp.req.path[1] = "api" /\ resp.req.path[2] = "suppliers"
    /\ resp.req.path[3] = word

\* the rows of the suppliers dataset whose name is the asked one, up to case
NamedRows ==
    SelectSeq(ds["suppliers"],
              LAMBDA r : /\ "Supplier_Name" \in DOMAIN r
                         /\ ToLowerCase(r["Supplier_Name"])
                              = ToLowerCase(resp.req.path[4]))

\* C5: a request GET /api/suppliers/alternates/{supplier} whose supplier
\* names a Suppliers row, up to case, is answered with the Alternate
\* Suppliers rows whose sku_id is exactly that row's SKU_No, without the
\* rows that lack sku_id or supplier_name.
C5_AlternatesOfSupplier ==
    AskedFor("alternates") /\ Len(NamedRows) > 0 =>
        LET sku == Get(NamedRows[1], "SKU_No")
            kept == SelectSeq(ds["alternateSuppliers"],
                      LAMBDA r : /\ Get(r, "sku_id") = sku
                                 /\ Truthy(Get(r, "sku_id"))
                                 /\ Truthy(Get(r, "supplier_name")))
        IN  /\ resp.status = 200
            /\ resp.body =
                 [i \in 1..Len(kept) |->
                    [f \in {"sku_id", "supplier_name", "otd_percentage",
                            "quality_score", "email", "location"} |->
                       Get(kept[i], f)]]

\* C6: a request GET /api/suppliers/insight/{identifier} whose identifier
\* names no supplier is answered with the insight of the first row of the
\* supplier insights whose sku_id is the identifier, up to case, and with a
\* not-found error only when there is no such row.
C6_InsightFallsBackToSku ==
    AskedFor("insight") /\ Len(NamedRows) = 0 =>
        LET bySku == SelectSeq(ds["supplierInsights"],
                       LAMBDA r : /\ "sku_id" \in DOMAIN r
                                  /\ ToLowerCase(r["sku_id"])
                                       = ToLowerCase(resp.req.path[4]))
        IN  IF Len(bySku) > 0
            THEN /\ resp.status = 200
                 /\ resp.body["insight"] = Get(bySku[1], "ai_supplier_insight")
            ELSE resp.status = 404

\* C7: a request GET /api/suppliers/{endpoint}/{supplier} whose supplier
\* names no Suppliers row, up to case, is answered 404 with the error
\* "<supplier> not found", and one whose supplier names a row but whose
\* endpoint is none of kpis, metrics and delivery-stats is answered 400.
C7_SupplierEndpointErrors ==
    resp.route = "supplierEndpoint" =>
        /\ Len(NamedRows) = 0 =>
             /\ resp.status = 404
             /\ resp.body = [error |-> resp.req.path[4] \o <<" not found">>]
        /\ (/\ Len(NamedRows) > 0
            /\ resp.req.path[3] \notin {"kpis", "metrics", "delivery-stats"}) =>
             resp.status = 400

\* C14: whatever the datasets hold, rows that lack a field the handler
\* dereferences included, no exception leaves a handler: a failure of the
\* computation is answered by the handler itself with a JSON error payload.
C14_NoExceptionEscapes == ~resp.thrown

---------------------------------------------------------------------------
(* Claims about the filters, checked under SpecFilter. *)

FilterFields(route) ==
    IF route = "forecasts" THEN {"PRODUCT_CARD_ID", "PRODUCT_NAME"}
    ELSE {"Month", "PRODUCT_CARD_ID", "PRODUCT_NAME"}

FilterSource(route) == IF route = "forecasts" THEN "forecast" ELSE "insights"

\* the records of rows, in order, that equal q on every field of P
Satisfying(rows, q, P) ==
    SelectSeq(rows, LAMBDA r : \A f \in P : Get(r, f) = q[f])

\* the answer is the subsequence that satisfies the predicates P of the
\* query; it is the dataset itself when P is empty; and for two predicates
\* it is what filtering by one and then by the other gives, in either order
FilterAnswerIs(P) ==
    LET rows == ds[FilterSource(resp.route)]
        q == resp.req.query
    IN  /\ resp.body = Satisfying(rows, q, P)
        /\ P = {} => resp.body = rows
        /\ \A f \in P : \A g \in P \ {f} :
             P = {f, g} => resp.body = FilterEq(FilterEq(rows, f, q[f]), g, q[g])

\* C8 as claimed: the predicates are the parameters present in the query.
C8_FilterByPresentPredicates ==
    resp.route \in {"forecasts", "bulletInsights"} =>
        FilterAnswerIs(DOMAIN resp.req.query \cap FilterFields(resp.route))

\* C8 as amended: the predicates are the parameters present in the query
\* with a non-empty value; a parameter given as the empty string does not
\* filter.
C8_FilterByNonEmptyPredicates ==
    resp.route \in {"forecasts", "bulletInsights"} =>
        FilterAnswerIs({f \in DOMAIN resp.req.query \cap FilterFields(resp.route) :
                          resp.req.query[f] # <<>>})

\* the forecasts were filtered by both an id and a name, which kept some
\* records and dropped others
C8_Witness ==
    /\ resp.route = "forecasts"
    /\ DOMAIN resp.req.query = {"PRODUCT_CARD_ID", "PRODUCT_NAME"}
    /\ \A f \in DOMAIN resp.req.query : resp.req.query[f] # <<>>
    /\ 0 < Len(resp.body) /\ Len(resp.body) < Len(ds["forecast"])

(* The product list, checked under SpecFilter. *)

\* the product list holds exactly one pair for every PRODUCT_CARD_ID of the
\* forecast dataset
OnePairPerId ==
    LET rows == ds["forecast"]
        ids == {Get(rows[i], "PRODUCT_CARD_ID") : i \in 1..Len(rows)}
    IN  /\ Len(resp.body) = Cardinality(ids)
        /\ {resp.body[k].PRODUCT_CARD_ID : k \in 1..Len(resp.body)} = ids

\* the indices of the forecast records with the id of pair k
RecordsOfPair(k) ==
    {i \in 1..Len(ds["forecast"]) :
       Get(ds["forecast"][i], "PRODUCT_CARD_ID") = resp.body[k].PRODUCT_CARD_ID}

\* C16 as claimed: one pair per distinct id, with the name of the first
\* forecast record that has the id.
C16_ProductsNameOfFirst ==
    resp.route = "products" =>
        /\ OnePairPerId
        /\ \A k \in 1..Len(resp.body) :
             \E i \in RecordsOfPair(k) :
               /\ \A j \in RecordsOfPair(k) : i <= j
               /\ resp.body[k].PRODUCT_NAME = Get(ds["forecast"][i], "PRODUCT_NAME")

\* C16 as amended: one pair per distinct id, with the name of the last
\* forecast record that has the id.
C16_ProductsNameOfLast ==
    resp.route = "products" =>
        /\ OnePairPerId
        /\ \A k \in 1..Len(resp.body) :
             \E i \in RecordsOfPair(k) :
               /\ \A j \in RecordsOfPair(k) : j <= i
               /\ resp.body[k].PRODUCT_NAME = Get(ds["forecast"][i], "PRODUCT_NAME")

\* the products were listed for two forecast records that share an id and
\* differ in the name: one pair, with the second record's name
C16_Witness ==
    /\ resp.route = "products"
    /\ Len(ds["forecast"]) = 2
    /\ Get(ds["forecast"][1], "PRODUCT_CARD_ID") = <<"1">>
    /\ Get(ds["forecast"][1], "PRODUCT_NAME") = <<"A">>
    /\ Get(ds["forecast"][2], "PRODUCT_CARD_ID") = <<"1">>
    /\ Get(ds["forecast"][2], "PRODUCT_NAME") = <<"B">>
    /\ resp.body = <<[PRODUCT_CARD_ID |-> <<"1">>, PRODUCT_NAME |-> <<"B">>]>>

(* The two handlers registered for GET /api/insights, checked under *)
(* SpecFilter.                                                      *)

InsightsPath == <<"api", "insights">>

\* the handlers registered for GET /api/insights, in registration order
InsightsHandlers ==
    SelectSeq(RouteTable, LAMBDA r : r.pattern = InsightsPath)

\* C17 as claimed: of the two handlers registered for GET /api/insights
\* only the one registered later is reachable, so every request to the path
\* is answered by the operator-insights handler and none by the
\* bullet-insights handler.
C17_LaterHandlerAnswers ==
    resp.req.path = InsightsPath =>
        /\ resp.route = InsightsHandlers[Len(InsightsHandlers)].name
        /\ resp.route # "bulletInsights"

\* C17 as amended: of the two handlers only the one registered earlier is
\* reachable, so every request to the path is answered by the
\* bullet-insights handler, with the filtered bullet insights, and none by
\* the operator-insights handler.
C17_EarlierHandlerAnswers ==
    resp.req.path = InsightsPath =>
        /\ Len(InsightsHandlers) = 2
        /\ resp.route = InsightsHandlers[1].name
        /\ resp.route = "bulletInsights"
        /\ resp.body = filterInsightsData(resp.req.query, ds)

\* a request to /api/insights was answered with bullet insights while the
\* operator insights, which the later handler would have sent, are loaded
C17_Witness ==
    /\ resp.req.path = InsightsPath
    /\ resp.status = 200
    /\ Len(resp.body) > 0
    /\ resp.body = ds["insights"]
    /\ ds["operatorInsights"] # <<>>

---------------------------------------------------------------------------
(* Claims about the period aggregator, checked under SpecAggregate. *)

AggregateRoutes == {"forecastsWeekly", "forecastsMonthly", "forecastsQuarterly"}

GroupByOf(route) ==
    IF route = "forecastsWeekly" THEN "weekly"
    ELSE IF route = "forecastsMonthly" THEN "monthly" ELSE "quarterly"

\* the numbers of field f of the rows
FieldValues(rows, f) == [i \in 1..Len(rows) |-> rows[i][f]]

AnyNaN(numbers) == \E i \in 1..Len(numbers) : numbers[i].nan

\* the sum of the numbers as integers, without rounding
RECURSIVE ExactSum(_, _)
ExactSum(numbers, n) ==
    IF n = 0 THEN 0 ELSE ExactSum(numbers, n - 1) + numbers[n].v

\* the two sequences of numbers have the same sum when each is added up
\* from the left as the program adds, NaN being the sum of both if it is
\* the sum of one
SameSumAdded(a, b) == SumOf(a, Len(a)) = SumOf(b, Len(b))

\* the two sequences of numbers have the same sum as real numbers
SameSumExactly(a, b) ==
    ~AnyNaN(a) /\ ~AnyNaN(b) /\ ExactSum(a, Len(a)) = ExactSum(b, Len(b))

\* C9 as claimed: for each granularity and every input, the sum of
\* total_demand over the buckets is the sum of Forecasted_Demand over the
\* input records, be it the sums as the program would add them or the sums
\* as real numbers.
C9_BucketTotalsSumToInput ==
    resp.route \in AggregateRoutes =>
        LET totals == FieldValues(resp.body, "total_demand")
            demands == FieldValues(ds["forecast"], "Forecasted_Demand")
        IN  SameSumAdded(totals, demands) \/ SameSumExactly(totals, demands)

\* C9 as amended: the two sums are the same, added or exact, when no
\* addition rounds, which is so when the demands add up to no more than the
\* largest integer up to which every integer is a floating-point number;
\* and when a demand is NaN both sums are NaN.
C9_BucketTotalsSumToInputUnrounded ==
    resp.route \in AggregateRoutes =>
        LET totals == FieldValues(resp.body, "total_demand")
            demands == FieldValues(ds["forecast"], "Forecasted_Demand")
        IN  /\ AnyNaN(demands) =>
                 AnyNaN(totals) /\ SameSumAdded(totals, demands)
            /\ (/\ ~AnyNaN(demands)
                /\ ExactSum(demands, Len(demands)) <= Pow2(MantissaBits)) =>
                 SameSumAdded(totals, demands) /\ SameSumExactly(totals, demands)

\* three records with demand 1 were aggregated into two monthly buckets,
\* the first of which holds two of them
C9_Witness ==
    /\ resp.route = "forecastsMonthly"
    /\ Len(ds["forecast"]) = 3
    /\ Len(resp.body) = 2
    /\ resp.body[1].total_demand = Num(2)
    /\ resp.body[2].total_demand = Num(1)

\* the two dates lie in the same calendar week (starting on Sunday, as
\* date-fns counts by default), month or quarter
SameCalendarPeriod(a, b, groupBy) ==
    IF groupBy = "weekly" THEN StartOfWeek(a) = StartOfWeek(b)
    ELSE IF groupBy = "monthly" THEN a.y = b.y /\ a.m = b.m
    ELSE a.y = b.y /\ (a.m - 1) \div 3 = (b.m - 1) \div 3

\* C10: within one call, two records whose dates lie in the same calendar
\* week, month or quarter get the same Period Key and so are counted in one
\* and the same bucket, and every bucket's average is its total divided by
\* the number of records that contributed to it.
C10_SamePeriodSameBucket ==
    resp.route \in AggregateRoutes =>
        LET data == ds["forecast"]
            g == GroupByOf(resp.route)
            valid == {i \in 1..Len(data) : data[i].Date # InvalidDate}
            InBucket(k) == {i \in 1..Len(data) :
                              PeriodKey(data[i].Date, g) = resp.body[k].period}
        IN  /\ \A i \in valid : \A j \in valid :
                 SameCalendarPeriod(data[i].Date, data[j].Date, g) =>
                   \E k \in 1..Len(resp.body) : {i, j} \subseteq InBucket(k)
            /\ \A k \in 1..Len(resp.body) :
                 resp.body[k].average_demand
                   = JsDiv(resp.body[k].total_demand, Cardinality(InBucket(k)))

---------------------------------------------------------------------------
(* The reporting specification: the breakdowns, the KPI calculators and  *)
(* the product list, over datasets whose rows lack fields, hold cells     *)
(* that are no numbers, or are absent altogether.                         *)

\* values of a grouping column: a plain name and two names that the object
\* literal {} inherits
GroupNames ==
    {<<"A">>, ProtoName, <<"c", "o", "n", "s", "t", "r", "u", "c", "t", "o", "r">>}

\* rows of Pump_Data.csv: every grouping column holds the same name, or the
\* row has none of them; the sales are a number or not
SalesBreakdownRows ==
    {[f \in {"Order Item Id", "Sales", "Customer City", "Category Name",
             "Shipping Mode", "Order Region", "Product Name"} |->
        IF f = "Order Item Id" THEN <<"1">>
        ELSE IF f = "Sales" THEN sales ELSE name] :
       name \in GroupNames, sales \in {<<"7">>, <<"a">>}}
    \cup {[f \in {"Order Item Id", "Sales"} |->
             IF f = "Sales" THEN sales ELSE <<"1">>] :
            sales \in {<<"7">>, <<"a">>}}

\* rows of the station schedule file: station and operator hold the same
\* name, or the row has neither; the units are a number or not
ScheduleBreakdownRows ==
    {[f \in {"station", "operator", "unit", "scheduled_date"} |->
        IF f = "unit" THEN unit
        ELSE IF f = "scheduled_date"
        THEN TwoDigits(1) \o <<"-">> \o TwoDigits(1) \o <<"-">>
             \o TwoDigits(20) \o TwoDigits(18)
        ELSE name] :
       name \in GroupNames, unit \in {<<"7">>, <<"a">>}}
    \cup {[f \in {"unit", "po_number"} |->
             IF f = "unit" THEN unit ELSE <<"1">>] :
            unit \in {<<"7">>, <<"a">>}}

\* rows of stock_levels.csv and of the alerts file: quantities that are
\* numbers, empty, no numbers, or missing
QuantityRows ==
    {[f \in {"SKU_No", "Stock_On_Hand", "In_Transit", "Lead_Time_Days",
             "Available", "Reorder_Point"} |->
        IF f = "SKU_No" THEN <<"1">> ELSE quantity] :
       quantity \in {<<"7">>, <<>>, <<"a">>}}
    \cup {[SKU_No |-> <<"2">>]}

\* rows of all_pump_forecasts.csv: ids with one or two names, and cells
\* for the demand and the date that are empty or do not parse
ForecastReportRows ==
    ForecastFilterRows
    \cup {[PRODUCT_CARD_ID |-> <<"2">>, PRODUCT_NAME |-> <<"B">>,
            Date |-> <<"B">>, Forecasted_Demand |-> demand] :
             demand \in {<<>>, <<"a">>}}

InitReports ==
    \/ \E rows \in SeqsUpTo(SalesBreakdownRows, MaxLen) :
         InitLoaded([SampleFiles EXCEPT !["sales"] = rows])
    \/ \E rows \in SeqsUpTo(ScheduleBreakdownRows, MaxLen) :
         InitLoaded([SampleFiles EXCEPT !["stationSchedule"] = rows,
                                        !["attendance"] = <<>>])
    \/ \E rows \in SeqsUpTo(QuantityRows, MaxLen) :
         InitLoaded([SampleFiles EXCEPT !["stock"] = rows, !["alert"] = rows,
                                        !["schedule"] = rows])
    \/ \E rows \in SeqsUpTo(ForecastReportRows, MaxLen) :
         InitLoaded([SampleFiles EXCEPT !["forecast"] = rows])

ReportRequests ==
    {Req(path, NoQuery) :
       path \in {<<"api", "sales", m>> :
                   m \in {"kpis", "city-sales", "category-distribution",
                          "monthly-sales", "shipping-mode", "region-sales",
                          "top-products"}}
          \cup {<<"api", "inventory", n>> :
                   n \in {"kpis", "reorder_chart", "lead_times", "suppliers"}}
          \cup {<<"api", "kpis">>, <<"api", "schedule", "chart">>,
                <<"api", "schedule", "operator_workload">>,
                <<"api", "products">>, <<"api", "forecasts">>}}

NextReports == \E req \in ReportRequests : Request(req)

SpecReports == InitReports /\ [][NextReports]_vars

---------------------------------------------------------------------------
(* Claims about the breakdowns and the calculators, checked under         *)
(* SpecReports.                                                           *)

\* the response is a breakdown that is not truncated: the sales by category
\* or by region, or the units by station or by operator
IsBreakdown ==
    \/ /\ resp.route = "salesMetric"
       /\ resp.req.path[3] \in {"category-distribution", "region-sales"}
       /\ "sales" \in DOMAIN resp.body
    \/ resp.route \in {"scheduleChart", "operatorWorkload"} /\ resp.status = 200

\* the totals the breakdown emits, in its order
BreakdownTotals ==
    IF resp.route = "salesMetric" THEN resp.body.sales
    ELSE FieldValues(resp.body, "Total_Units")

\* the measure of every input record, in the order of the dataset
BreakdownMeasures ==
    IF resp.route = "salesMetric"
    THEN [i \in 1..Len(ds["sales"]) |-> SalesAmount(ds["sales"][i])]
    ELSE [i \in 1..Len(ds["stationSchedule"]) |->
            UnitsOf(ds["stationSchedule"][i])]

\* C11: for every breakdown without truncation and every value of the
\* grouping field, a missing one included, the totals of the emitted groups
\* add up to the sum of the measure over all input records (as the program
\* adds them, or as real numbers).  It is stated for the inputs whose
\* measures all are numbers, where the sum of the measures is a number too.
C11_GroupTotalsSumToInput ==
    IsBreakdown /\ ~AnyNaN(BreakdownMeasures) =>
        \/ SameSumAdded(BreakdownTotals, BreakdownMeasures)
        \/ SameSumExactly(BreakdownTotals, BreakdownMeasures)

\* C13: a KPI calculator whose backing dataset is empty answers with a
\* structured error or with a snapshot of defined numbers, and lets no
\* exception escape; in particular its average is not the quotient by a
\* record count of zero, which is NaN.
C13_EmptyDatasetGuarded ==
    /\ (resp.route = "salesKpis" /\ ds["sales"] = <<>>) =>
         ~resp.thrown /\ DOMAIN resp.body = {"error"}
    /\ (resp.route = "inventoryKpis" /\ ds["stock"] = <<>>) =>
         /\ ~resp.thrown
         /\ \/ DOMAIN resp.body = {"error"}
            \/ /\ ~resp.body.avg_lead_time.nan
               /\ ~resp.body.total_stock_on_hand.nan
               /\ ~resp.body.in_transit.nan
    /\ (resp.route = "kpis" /\ ds["attendance"] = <<>>
                            /\ ds["stationSchedule"] = <<>>) =>
         /\ ~resp.thrown
         /\ DOMAIN resp.body = {"error"} \/ ~resp.body.total_units_scheduled.nan

\* the number a raw cell stands for when every cell that is absent, empty
\* or without a leading number counts as 0
ToNumberOrZero(raw) ==
    IF raw = Undefined THEN Num(0)
    ELSE IF DigitPrefix(raw, 1) = 0 THEN Num(0)
    ELSE Float(DigitsValue(raw, DigitPrefix(raw, 1)))

\* C18: numeric coercion never yields NaN: the demand of every forecast
\* record that is served, the two quantities of every reorder-chart entry, the
\* sales total and the inventory sums are the numbers of the raw cells, with
\* 0 for every cell that is absent, empty or does not parse.
C18_CoercionDefaultsToZero ==
    /\ resp.route = "forecasts" =>
         \A i \in 1..Len(ds["forecast"]) :
           ds["forecast"][i].Forecasted_Demand
             = ToNumberOrZero(Get(files["forecast"][i], "Forecasted_Demand"))
    /\ resp.route = "reorderChart" =>
         \A k \in 1..Len(resp.body) :
           /\ resp.body[k].Available
                = ToNumberOrZero(Get(ds["alert"][k], "Available"))
           /\ resp.body[k].Reorder_Point
                = ToNumberOrZero(Get(ds["alert"][k], "Reorder_Point"))
    /\ (resp.route = "salesKpis" /\ "total_sales" \in DOMAIN resp.body) =>
         ~resp.body.total_sales.nan
    /\ resp.route = "inventoryKpis" =>
         /\ ~resp.body.total_stock_on_hand.nan
         /\ ~resp.body.in_transit.nan
         /\ ~resp.body.scheduled_qty.nan

---------------------------------------------------------------------------
(* The truncated breakdowns, city-sales (the first 10) and top-products   *)
(* (the first 5), checked under SpecTopN.                                 *)

\* files of Pump_Data.csv with up to MaxProducts records: record i is of
\* city and product i, but the last record may be of the first record's or
\* of one named "__proto__"; the sales are numbers or not
TopNFiles ==
    LET names == <<"A", "B", "C", "D", "E", "F", "G">>
        Row(name, sales) ==
            [f \in {"Order Item Id", "Sales", "Customer City", "Product Name"} |->
               IF f = "Order Item Id" THEN <<"1">>
               ELSE IF f = "Sales" THEN sales ELSE name]
    IN  UNION {{[i \in 1..n |->
                   Row(IF i = n /\ i > 1 /\ last # <<>> THEN last ELSE <<names[i]>>,
                       sales[i])] :
                  sales \in [1..n -> {<<"1">>, <<"2">>, <<"a">>}],
                  last \in {<<>>, <<"A">>, ProtoName}} :
               n \in 0..MaxProducts}

InitTopN ==
    \E rows \in TopNFiles : InitLoaded([SampleFiles EXCEPT !["sales"] = rows])

NextTopN ==
    \E m \in {"city-sales", "top-products"} :
        Request(Req(<<"api", "sales", m>>, NoQuery))

SpecTopN == InitTopN /\ [][NextTopN]_vars

\* the response is a truncated breakdown
IsTopN ==
    /\ resp.route = "salesMetric"
    /\ resp.req.path[3] \in {"city-sales", "top-products"}
    /\ "sales" \in DOMAIN resp.body

TopNField == IF resp.req.path[3] = "city-sales" THEN "Customer City" ELSE "Product Name"

TopNLimit == IF resp.req.path[3] = "city-sales" THEN 10 ELSE 5

\* the values of the grouping field in the sales dataset
TopNGroups == {Get(ds["sales"][i], TopNField) : i \in 1..Len(ds["sales"])}

\* the sum of the sales of the records of group g
TopNGroupSum(g) ==
    LET of == SelectSeq(ds["sales"], LAMBDA r : Get(r, TopNField) = g)
    IN  SumOf([i \in 1..Len(of) |-> SalesAmount(of[i])], Len(of))

\* a < b on totals; a total that is no number is not less and not greater
TotalLess(a, b) == ~a.nan /\ ~b.nan /\ a.v < b.v

\* the names the response emits, as values of the grouping field
TopNEmitted ==
    LET keys == IF resp.req.path[3] = "city-sales" THEN resp.body.cities
                ELSE resp.body.products
    IN  {keys[i] : i \in 1..Len(keys)}

\* C12: city-sales and top-products emit min(k, number of distinct groups)
\* totals, for k = 10 and k = 5, in non-increasing order, and no group left
\* out has a total greater than an emitted one.  It is stated for the
\* inputs whose sales all are numbers.
C12_TopNLargestInOrder ==
    IsTopN /\ ~AnyNaN([i \in 1..Len(ds["sales"]) |-> SalesAmount(ds["sales"][i])]) =>
        LET totals == resp.body.sales
            distinct == Cardinality(TopNGroups)
        IN  /\ Len(totals) = IF distinct < TopNLimit THEN distinct ELSE TopNLimit
            /\ \A i \in 1..Len(totals) : \A j \in (i + 1)..Len(totals) :
                 ~TotalLess(totals[i], totals[j])
            /\ \A g \in TopNGroups : PropertyKey(g) \notin TopNEmitted =>
                 \A i \in 1..Len(totals) :
                   ~TotalLess(totals[i], TopNGroupSum(g))

====
